---- MODULE Spec2Model ----
(***************************************************************************)
(* Model of the EduSense AI application (src/ai_app/app).                   *)
(*                                                                         *)
(* The service layer (services/): the prompt rendering of the four tasks,  *)
(* the call to the external model, the extraction of structured data from  *)
(* the model's reply (_parse_json_response) and the chat task's snippet    *)
(* selection.  Spec runs one call of a service method.                     *)
(*                                                                         *)
(* The HTTP layer (routes/, schemas/, main.py): the validation of a        *)
(* request body against its schema, the route handlers and the responses   *)
(* they end with.  App runs requests through the four POST routes.         *)
(*                                                                         *)
(* Text is a sequence of one-character strings, so that find, slicing,     *)
(* strip and split act on characters exactly as the Python str methods do. *)
(* Indices handed to the Py* operators are 0-based, as in Python.          *)
(***************************************************************************)
EXTENDS Integers, Sequences, FiniteSets, TLC

VARIABLES
    pc,        \* "idle", "awaiting" (suspended in chain.ainvoke), "done"
               \* (the service method has returned or raised), "responded"
    task,      \* "chat", "curriculum", "mcq", "flashcards"
    args,      \* the arguments of the service call
    prompt,    \* the rendered prompt handed to the model
    reply,     \* result["text"], the model's reply
    response,  \* the local variable response of _parse_json_response when it parses
    parsed,    \* what _parse_json_response returned or raised
    result,    \* what the service method returned or raised
    log,       \* the messages of the logger.error calls, oldest first
    debug_mode,   \* settings.debug_mode
    request,   \* the JSON body of the HTTP request being handled
    status,    \* the status code of the HTTP response, 0 before it is sent
    body,      \* the JSON body of the HTTP response
    path,      \* the method and the path of the HTTP request being handled
    llm,       \* self.llm of the service singleton of each task
    waiting,   \* the requests suspended in chain.ainvoke while another is handled
    answered   \* history: the request answered before the one in hand

vars == <<pc, task, args, prompt, reply, response, parsed, result, log,
          debug_mode, request, status, body, path, llm, waiting, answered>>

-----------------------------------------------------------------------------
(* Python str primitives                                                   *)

SetMin(S) == CHOOSE x \in S : \A y \in S : x <= y

IMin(a, b) == IF a <= b THEN a ELSE b

IMax(a, b) == IF a >= b THEN a ELSE b

\* s[i:i+len(sub)] == sub
StartsAt(s, sub, i) ==
    /\ i >= 0
    /\ i + Len(sub) <= Len(s)
    /\ \A k \in 1..Len(sub) : s[i + k] = sub[k]

\* str.find(sub, start): the lowest index >= start where sub occurs, else -1
PyFind(s, sub, start) ==
    LET found == {i \in start..(Len(s) - Len(sub)) : StartsAt(s, sub, i)}
    IN  IF found = {} THEN -1 ELSE SetMin(found)

\* sub in s
PyIn(sub, s) == PyFind(s, sub, 0) # -1

\* one slice bound, as Python normalises it: a negative index counts from the
\* end, and the result is clamped to 0..len(s)
SliceIndex(s, i) == IF i < 0 THEN IMax(0, Len(s) + i) ELSE IMin(i, Len(s))

\* s[a:b]
PySlice(s, a, b) ==
    LET lo == SliceIndex(s, a)
        hi == SliceIndex(s, b)
    IN  IF lo >= hi THEN << >> ELSE SubSeq(s, lo + 1, hi)

\* s[a:]
PySliceFrom(s, a) == PySlice(s, a, Len(s))

\* the whitespace characters of the model's alphabet
Whitespace == {" ", "\n", "\t", "\r"}

RECURSIVE LStrip(_)
LStrip(s) ==
    IF s # << >> /\ Head(s) \in Whitespace THEN LStrip(Tail(s)) ELSE s

RECURSIVE RStrip(_)
RStrip(s) ==
    IF s # << >> /\ s[Len(s)] \in Whitespace
    THEN RStrip(SubSeq(s, 1, Len(s) - 1))
    ELSE s

\* str.strip()
PyStrip(s) == RStrip(LStrip(s))

\* str.split(sep): scan left to right, cut at each non-overlapping sep
RECURSIVE PySplit(_, _)
PySplit(s, sep) ==
    LET i == PyFind(s, sep, 0)
    IN  IF i = -1 THEN << s >>
        ELSE << PySlice(s, 0, i) >> \o PySplit(PySliceFrom(s, i + Len(sep)), sep)

DigitChars == <<"0", "1", "2", "3", "4", "5", "6", "7", "8", "9">>

\* str(n) of an int n >= 0
RECURSIVE IntToStr(_)
IntToStr(n) ==
    IF n < 10 THEN << DigitChars[n + 1] >>
    ELSE IntToStr(n \div 10) \o << DigitChars[(n % 10) + 1] >>

-----------------------------------------------------------------------------
(* json.loads, for the JSON subset of the model's alphabet: objects,       *)
(* arrays, strings without escapes, integers, true/false/null.  A value is *)
(* returned in canonical form (its text without insignificant whitespace); *)
(* a failure carries the decoder's message and character position.         *)

Digits == {"0", "1", "2", "3", "4", "5", "6", "7", "8", "9"}

\* s[i:i+1]
CharAt(s, i) == IF i >= 0 /\ i < Len(s) THEN s[i + 1] ELSE ""

Ok(val, end) == [ok |-> TRUE, end |-> end, val |-> val, msg |-> "", at |-> 0]

Fail(msg, at) == [ok |-> FALSE, end |-> 0, val |-> << >>, msg |-> msg, at |-> at]

RECURSIVE SkipWs(_, _)
SkipWs(s, i) ==
    IF i < Len(s) /\ s[i + 1] \in Whitespace THEN SkipWs(s, i + 1) ELSE i

\* scanstring(s, end): end is the index just after the opening quote
RECURSIVE ScanChunk(_, _, _)
ScanChunk(s, i, begin) ==
    IF i >= Len(s) THEN Fail("Unterminated string starting at", begin)
    ELSE IF s[i + 1] = "\"" THEN Ok(SubSeq(s, begin + 1, i + 1), i + 1)
    ELSE IF s[i + 1] \in {"\n", "\t", "\r"}
         THEN Fail("Invalid control character at", i)
    ELSE ScanChunk(s, i + 1, begin)

scanstring(s, end) == ScanChunk(s, end, end - 1)

RECURSIVE DigitsEnd(_, _)
DigitsEnd(s, i) == IF CharAt(s, i) \in Digits THEN DigitsEnd(s, i + 1) ELSE i

\* NUMBER_RE, integer part: -?(0|[1-9][0-9]*)
MatchNumber(s, idx) ==
    LET d == IF CharAt(s, idx) = "-" THEN idx + 1 ELSE idx
        e == IF CharAt(s, d) = "0" THEN d + 1 ELSE DigitsEnd(s, d)
    IN  IF CharAt(s, d) \in Digits
        THEN Ok(SubSeq(s, idx + 1, e), e)
        ELSE Fail("Expecting value", idx)

LitNull == <<"n", "u", "l", "l">>

LitTrue == <<"t", "r", "u", "e">>

LitFalse == <<"f", "a", "l", "s", "e">>

RECURSIVE scan_once(_, _)
RECURSIVE ArrayItems(_, _, _)
RECURSIVE ObjectPairs(_, _, _)

JSONArray(s, end) ==
    LET e1 == SkipWs(s, end)
    IN  IF CharAt(s, e1) = "]" THEN Ok(<<"[", "]">>, e1 + 1)
        ELSE ArrayItems(s, e1, <<"[">>)

ArrayItems(s, end, acc) ==
    LET v  == scan_once(s, end)
        e2 == SkipWs(s, v.end)
        c  == CharAt(s, e2)
    IN  IF ~v.ok THEN v
        ELSE IF c = "]" THEN Ok(acc \o v.val \o <<"]">>, e2 + 1)
        ELSE IF c # "," THEN Fail("Expecting ',' delimiter", e2)
        ELSE ArrayItems(s, SkipWs(s, e2 + 1), acc \o v.val \o <<",">>)

JSONObject(s, end) ==
    LET e1 == SkipWs(s, end)
        c  == CharAt(s, e1)
    IN  IF c = "}" THEN Ok(<<"{", "}">>, e1 + 1)
        ELSE IF c # "\""
             THEN Fail("Expecting property name enclosed in double quotes", e1)
        ELSE ObjectPairs(s, e1 + 1, <<"{">>)

ObjectPairs(s, end, acc) ==
    LET k  == scanstring(s, end)
        e2 == SkipWs(s, k.end)
        e3 == SkipWs(s, e2 + 1)
        v  == scan_once(s, e3)
        e4 == SkipWs(s, v.end)
        c  == CharAt(s, e4)
        e5 == SkipWs(s, e4 + 1)
        have == acc \o k.val \o <<":">> \o v.val
    IN  IF ~k.ok THEN k
        ELSE IF CharAt(s, e2) # ":" THEN Fail("Expecting ':' delimiter", e2)
        ELSE IF ~v.ok THEN v
        ELSE IF c = "}" THEN Ok(have \o <<"}">>, e4 + 1)
        ELSE IF c # "," THEN Fail("Expecting ',' delimiter", e4)
        ELSE IF CharAt(s, e5) # "\""
             THEN Fail("Expecting property name enclosed in double quotes", e5)
        ELSE ObjectPairs(s, e5 + 1, have \o <<",">>)

scan_once(s, idx) ==
    LET c == CharAt(s, idx)
    IN  IF c = "\"" THEN scanstring(s, idx + 1)
        ELSE IF c = "{" THEN JSONObject(s, idx + 1)
        ELSE IF c = "[" THEN JSONArray(s, idx + 1)
        ELSE IF c = "n" /\ StartsAt(s, LitNull, idx) THEN Ok(LitNull, idx + 4)
        ELSE IF c = "t" /\ StartsAt(s, LitTrue, idx) THEN Ok(LitTrue, idx + 4)
        ELSE IF c = "f" /\ StartsAt(s, LitFalse, idx) THEN Ok(LitFalse, idx + 5)
        ELSE IF c \in Digits \cup {"-"} THEN MatchNumber(s, idx)
        ELSE Fail("Expecting value", idx)

\* JSONDecoder.decode: one value, whitespace around it, nothing after it
json_loads(s) ==
    LET r == scan_once(s, SkipWs(s, 0))
        e == SkipWs(s, r.end)
    IN  IF ~r.ok THEN r
        ELSE IF e # Len(s) THEN Fail("Extra data", e)
        ELSE r

-----------------------------------------------------------------------------
(* Response Extractor: _parse_json_response                                *)

\* the backtick character U+0060 (a string of this module cannot hold it)
BT == "BACKTICK"

Fence == <<BT, BT, BT>>

JsonFence == Fence \o <<"j", "s", "o", "n">>

\* ExtractFenced with the language tag left in the json-tagged block
ExtractFencedTagKept(text) ==
    IF PyIn(JsonFence, text)
    THEN LET json_start == PyFind(text, JsonFence, 0) + 3
             json_end   == PyFind(text, Fence, json_start)
         IN  PyStrip(PySlice(text, json_start, json_end))
    ELSE IF PyIn(Fence, text)
    THEN LET json_start == PyFind(text, Fence, 0) + 3
             json_end   == PyFind(text, Fence, json_start)
         IN  PyStrip(PySlice(text, json_start, json_end))
    ELSE text

\* ExtractFenced without the branch for an untagged fence
ExtractFencedJsonOnly(text) ==
    IF PyIn(JsonFence, text)
    THEN LET json_start == PyFind(text, JsonFence, 0) + 7
             json_end   == PyFind(text, Fence, json_start)
         IN  PyStrip(PySlice(text, json_start, json_end))
    ELSE text

\* ExtractFenced that, without a fence, looks for the first brace in the text
ExtractFencedBrace(text) ==
    IF PyIn(JsonFence, text)
    THEN LET json_start == PyFind(text, JsonFence, 0) + 7
             json_end   == PyFind(text, Fence, json_start)
         IN  PyStrip(PySlice(text, json_start, json_end))
    ELSE IF PyIn(Fence, text)
    THEN LET json_start == PyFind(text, Fence, 0) + 3
             json_end   == PyFind(text, Fence, json_start)
         IN  PyStrip(PySlice(text, json_start, json_end))
    ELSE IF PyIn(<<"{">>, text)
    THEN PySliceFrom(text, PyFind(text, <<"{">>, 0))
    ELSE text

\* ExtractFenced that takes the first fence of the text, tagged or not
ExtractFencedFirstFence(text) ==
    IF PyIn(Fence, text)
    THEN LET first      == PyFind(text, Fence, 0)
             json_start == first + (IF StartsAt(text, JsonFence, first) THEN 7 ELSE 3)
             json_end   == PyFind(text, Fence, json_start)
         IN  PyStrip(PySlice(text, json_start, json_end))
    ELSE text

\* ExtractFenced that looks for the closing fence from the start of the text
ExtractFencedEndFromZero(text) ==
    IF PyIn(JsonFence, text)
    THEN LET json_start == PyFind(text, JsonFence, 0) + 7
             json_end   == PyFind(text, Fence, 0)
         IN  PyStrip(PySlice(text, json_start, json_end))
    ELSE IF PyIn(Fence, text)
    THEN LET json_start == PyFind(text, Fence, 0) + 3
             json_end   == PyFind(text, Fence, json_start)
         IN  PyStrip(PySlice(text, json_start, json_end))
    ELSE text

\* the fence-stripping branches: the value of response handed to json.loads
ExtractFenced(text) ==
    IF PyIn(JsonFence, text)
    THEN LET json_start == PyFind(text, JsonFence, 0) + 7
             json_end   == PyFind(text, Fence, json_start)
         IN  PyStrip(PySlice(text, json_start, json_end))
    ELSE IF PyIn(Fence, text)
    THEN LET json_start == PyFind(text, Fence, 0) + 3
             json_end   == PyFind(text, Fence, json_start)
         IN  PyStrip(PySlice(text, json_start, json_end))
    ELSE text

\* str(e) of the JSONDecodeError json.loads(doc) raised:
\* "<msg>: line <lineno> column <colno> (char <pos>)"
JSONDecodeErrorStr(doc, r) ==
    LET newlines == {i \in 1..r.at : doc[i] = "\n"}
        lineno   == Cardinality(newlines) + 1
        colno    == IF newlines = {} THEN r.at + 1
                    ELSE r.at - ((CHOOSE i \in newlines :
                                    \A j \in newlines : j <= i) - 1)
    IN  <<r.msg, ": line ">> \o IntToStr(lineno) \o <<" column ">>
        \o IntToStr(colno) \o <<" (char ">> \o IntToStr(r.at) \o <<")">>

NoError == [type |-> "", message |-> << >>]

NoOutcome == [ok |-> FALSE, value |-> << >>, error |-> NoError]

Returned(v) == [ok |-> TRUE, value |-> v, error |-> NoError]

\* raise type(message)
Raised(type, message) ==
    [ok |-> FALSE, value |-> << >>, error |-> [type |-> type, message |-> message]]

\* parse_json_response that falls back to an empty object when parsing fails
parse_json_response_fallback(text) ==
    LET r == json_loads(PyStrip(ExtractFenced(text)))
    IN  IF r.ok THEN Returned(r.val) ELSE Returned(<<"{", "}">>)

\* return json.loads(response.strip()), or the ValueError raised instead
parse_json_response(text) ==
    LET doc == PyStrip(ExtractFenced(text))
        r   == json_loads(doc)
    IN  IF r.ok THEN Returned(r.val)
        ELSE Raised("ValueError",
                    <<"Invalid JSON response from AI: ">> \o JSONDecodeErrorStr(doc, r))

\* parse_json_log that logs the whole reply instead of the text that failed
parse_json_log_raw(text) ==
    LET doc == PyStrip(ExtractFenced(text))
        r   == json_loads(doc)
    IN  IF r.ok THEN << >>
        ELSE << <<"Failed to parse JSON: ">> \o JSONDecodeErrorStr(doc, r)
                \o <<"\nResponse: ">> \o text >>

\* logger.error(f"Failed to parse JSON: {str(e)}\nResponse: {response}")
parse_json_log(text) ==
    LET doc == PyStrip(ExtractFenced(text))
        r   == json_loads(doc)
    IN  IF r.ok THEN << >>
        ELSE << <<"Failed to parse JSON: ">> \o JSONDecodeErrorStr(doc, r)
                \o <<"\nResponse: ">> \o ExtractFenced(text) >>

-----------------------------------------------------------------------------
(* Chat snippet selection: _extract_relevant_snippets                      *)

\* the default of the max_snippets parameter
max_snippets == 3

\* extract_relevant_snippets without the cap
extract_all_snippets(notes, question, limit) == PySplit(notes, <<".", " ">>)

extract_relevant_snippets(notes, question, limit) ==
    LET sentences == PySplit(notes, <<".", " ">>)
    IN  IF Len(sentences) > limit
        THEN PySlice(sentences, 0, limit)
        ELSE sentences

\* the placeholder confidence 0.85 of a chat result, in hundredths
Confidence == 85

-----------------------------------------------------------------------------
(* Prompt Builder: the four templates.  The fixed text of a template is    *)
(* kept as whole-line tokens; a substituted value is its characters.       *)

\* an argument that is None (no text is a one-element sequence of this token)
None == << "<None>" >>

\* the truth value Python gives an Optional[str] argument
Truthy(v) == v # None /\ v # << >>

\* str(b) of a bool
BoolToStr(b) == IF b THEN <<"T", "r", "u", "e">> ELSE <<"F", "a", "l", "s", "e">>

\* what str.format substitutes for an Optional[str] value
StrOf(v) == IF v = None THEN <<"N", "o", "n", "e">> ELSE v

\* an Optional[int] argument: an int object, or None
IntObj(n) == [type |-> "int", int |-> n]

NoneObj == [type |-> "NoneType", int |-> 0]

\* prompt_template.format(notes=..., question=..., context_section=...)
ChatTemplate(notes, question, context_section) ==
    <<"You are an expert educational assistant helping students understand their class notes.\n",
      "\n",
      "Class Notes:\n">>
    \o notes
    \o <<"\n", "\n">>
    \o context_section
    \o <<"\n", "\n", "Question: ">>
    \o question
    \o <<"\n", "\n",
         "Provide a clear, accurate, and educational answer based on the notes provided. If the question cannot be answered from the notes, politely say so and suggest what additional information might be needed.\n",
         "\n",
         "Answer:">>

\* ChatPrompt that leaves the context out
ChatPromptNoContext(a) == ChatTemplate(a.notes, a.question, << >>)

\* ChatPrompt with a context section for every context that is not None
ChatPromptEmptyContext(a) ==
    LET context_section ==
            IF a.context # None
            THEN <<"Previous Context:\n">> \o a.context \o <<"\n">>
            ELSE << >>
    IN  ChatTemplate(a.notes, a.question, context_section)

ChatPrompt(a) ==
    LET context_section ==
            IF Truthy(a.context)
            THEN <<"Previous Context:\n">> \o a.context \o <<"\n">>
            ELSE << >>
    IN  ChatTemplate(a.notes, a.question, context_section)

CurriculumPrompt(a) ==
    LET subject          == IF Truthy(a.subject) THEN a.subject
                            ELSE <<"G", "e", "n", "e", "r", "a", "l", " ",
                                   "S", "t", "u", "d", "i", "e", "s">>
        difficulty_level == StrOf(a.difficulty_level)
        duration_weeks   == IF a.duration_weeks.type = "NoneType"
                            THEN <<"N", "o", "n", "e">>
                            ELSE IntToStr(a.duration_weeks.int)
    IN  <<"You are an expert curriculum designer. Create a comprehensive ">>
        \o duration_weeks
        \o <<"-week curriculum based on the following content.\n",
             "\n",
             "Content:\n">>
        \o a.document
        \o <<"\n", "\n", "Subject: ">>
        \o subject
        \o <<"\n", "Difficulty Level: ">>
        \o difficulty_level
        \o <<"\n", "Duration: ">>
        \o duration_weeks
        \o <<" weeks\n",
             "\n",
             "Generate a structured curriculum in JSON format with the following structure:\n",
             "{\n",
             "  \"subject\": \"subject name\",\n",
             "  \"difficulty_level\": \"">>
        \o difficulty_level
        \o <<"\",\n", "  \"total_weeks\": ">>
        \o duration_weeks
        \o <<",\n",
             "  \"overview\": \"brief overview of the curriculum\",\n",
             "  \"prerequisites\": [\"prerequisite 1\", \"prerequisite 2\"],\n",
             "  \"weeks\": [\n",
             "    {\n",
             "      \"week_number\": 1,\n",
             "      \"title\": \"week title\",\n",
             "      \"topics\": [\"topic 1\", \"topic 2\"],\n",
             "      \"learning_objectives\": [\"objective 1\", \"objective 2\"],\n",
             "      \"suggested_activities\": [\"activity 1\", \"activity 2\"]\n",
             "    }\n",
             "  ]\n",
             "}\n",
             "\n",
             "Ensure the curriculum is comprehensive, well-structured, and appropriate for the ">>
        \o difficulty_level
        \o <<" level.\n", "\n", "JSON Response:">>

MCQPrompt(a) ==
    LET num_questions        == IntToStr(a.num_questions)
        difficulty_level     == StrOf(a.difficulty_level)
        include_explanations == BoolToStr(a.include_explanations)
    IN  <<"You are an expert test creator. Generate ">>
        \o num_questions
        \o <<" multiple choice questions (MCQs) from the following content.\n",
             "\n",
             "Content:\n">>
        \o a.content
        \o <<"\n", "\n", "Difficulty Level: ">>
        \o difficulty_level
        \o <<"\n", "Include Explanations: ">>
        \o include_explanations
        \o <<"\n",
             "\n",
             "Generate questions in JSON format with this structure:\n",
             "{\n",
             "  \"total_questions\": ">>
        \o num_questions
        \o <<",\n", "  \"difficulty_level\": \"">>
        \o difficulty_level
        \o <<"\",\n",
             "  \"questions\": [\n",
             "    {\n",
             "      \"question_number\": 1,\n",
             "      \"question\": \"question text\",\n",
             "      \"options\": [\n",
             "        {\"option\": \"A\", \"text\": \"option A text\"},\n",
             "        {\"option\": \"B\", \"text\": \"option B text\"},\n",
             "        {\"option\": \"C\", \"text\": \"option C text\"},\n",
             "        {\"option\": \"D\", \"text\": \"option D text\"}\n",
             "      ],\n",
             "      \"correct_answer\": \"A\",\n",
             "      \"explanation\": \"explanation for why A is correct\",\n",
             "      \"difficulty\": \"medium\"\n",
             "    }\n",
             "  ]\n",
             "}\n",
             "\n",
             "Ensure:\n",
             "1. Questions are clear and unambiguous\n",
             "2. All options are plausible\n",
             "3. Only one correct answer per question\n",
             "4. Explanations are educational and detailed\n",
             "5. Questions cover different aspects of the content\n",
             "\n",
             "JSON Response:">>

FlashcardsPrompt(a) ==
    LET num_flashcards == IntToStr(a.num_flashcards)
        focus_section  ==
            IF Truthy(a.focus_areas)
            THEN <<"Focus Areas: ">> \o a.focus_areas
            ELSE <<"Focus Areas: Cover all key concepts">>
        focus_areas    == IF Truthy(a.focus_areas) THEN a.focus_areas
                          ELSE <<"g", "e", "n", "e", "r", "a", "l">>
    IN  <<"You are an expert at creating educational flashcards. Generate ">>
        \o num_flashcards
        \o <<" flashcards from the following content.\n",
             "\n",
             "Content:\n">>
        \o a.content
        \o <<"\n", "\n">>
        \o focus_section
        \o <<"\n",
             "\n",
             "Generate flashcards in JSON format with this structure:\n",
             "{\n",
             "  \"total_cards\": ">>
        \o num_flashcards
        \o <<",\n", "  \"focus_areas\": \"">>
        \o focus_areas
        \o <<"\",\n",
             "  \"flashcards\": [\n",
             "    {\n",
             "      \"card_number\": 1,\n",
             "      \"front\": \"Question or term (concise)\",\n",
             "      \"back\": \"Answer or definition (clear and complete)\",\n",
             "      \"category\": \"topic category\",\n",
             "      \"difficulty\": \"easy/medium/hard\"\n",
             "    }\n",
             "  ]\n",
             "}\n",
             "\n",
             "Ensure:\n",
             "1. Front of card is concise (question/term)\n",
             "2. Back provides clear, complete answer\n",
             "3. Cards cover key concepts\n",
             "4. Mix of difficulty levels\n",
             "5. Logical categorization\n",
             "\n",
             "JSON Response:">>

RenderPrompt(t, a) ==
    CASE t = "chat"       -> ChatPrompt(a)
      [] t = "curriculum" -> CurriculumPrompt(a)
      [] t = "mcq"        -> MCQPrompt(a)
      [] t = "flashcards" -> FlashcardsPrompt(a)

-----------------------------------------------------------------------------
(* Bounded inputs                                                          *)

\* the longest notes text, in characters
MaxNotesLen == 6

\* the most fenced blocks in a reply of the model
MaxBlocks == 2

SeqsUpTo(S, n) == UNION {[1..k -> S] : k \in 0..n}

NoteChars == {"A", ".", " "}

NotesTexts == SeqsUpTo(NoteChars, MaxNotesLen)

\* every notes text with each question, and one notes text with a context
ChatArgs ==
    [notes : NotesTexts,
     question : {<<"w", "h", "y", "?">>, <<"A">>},
     context : {None}]
    \cup
    [notes : {<<"A", ".", " ", "A">>},
     question : {<<"w", "h", "y", "?">>, <<"A">>},
     context : {<<"c", "t", "x">>}]

CurriculumArgs ==
    {[document |-> <<"H", "2", "O">>, subject |-> None,
      difficulty_level |-> <<"i", "n", "t", "e", "r", "m", "e", "d", "i", "a", "t", "e">>,
      duration_weeks |-> IntObj(8)],
     [document |-> <<"a", "{", "b", "}">>, subject |-> <<"M", "L">>,
      difficulty_level |-> <<"h", "a", "r", "d">>,
      duration_weeks |-> IntObj(52)]}

MCQDefaults ==
    [content |-> <<"H", "2", "O">>, num_questions |-> 5,
     difficulty_level |-> <<"m", "e", "d", "i", "u", "m">>,
     include_explanations |-> TRUE]

MCQArgs ==
    {MCQDefaults,
     [content |-> <<"a", "{", "b", "}">>, num_questions |-> 20,
      difficulty_level |-> <<"h", "a", "r", "d">>,
      include_explanations |-> FALSE]}

FlashcardsArgs ==
    {[content |-> <<"H", "2", "O">>, num_flashcards |-> 10, focus_areas |-> None],
     [content |-> <<"a", "{", "b", "}">>, num_flashcards |-> 50,
      focus_areas |-> <<"k", "e", "y">>]}

\* {"a":1}
ObjText == <<"{", "\"", "a", "\"", ":", "1", "}">>

\* what a reply holds inside a fence: JSON padded with whitespace, bare JSON,
\* an array with a trailing comma, a JSON string that holds a fence marker
Bodies ==
    {<<" ">> \o ObjText \o <<"\n">>,
     ObjText,
     <<"[", "1", ",", "]">>,
     <<"\"">> \o Fence \o <<"\"">>}

\* what a reply holds before its first fence: nothing, JSON padded with
\* whitespace, prose with JSON embedded in it
Leads == {<< >>, <<" ">> \o ObjText \o <<"\n">>, <<"x", " ">> \o ObjText}

\* what follows a closing fence
Trails == {<< >>, <<" ", "x">>}

\* the texts of at most k fenced blocks, each closed
RECURSIVE ClosedTexts(_)
ClosedTexts(k) ==
    IF k = 0 THEN Leads
    ELSE ClosedTexts(k - 1) \cup
         {t \o open \o b \o Fence \o s :
            t \in ClosedTexts(k - 1), open \in {JsonFence, Fence},
            b \in Bodies, s \in Trails}

\* the replies of the model to a structured task: up to MaxBlocks fenced
\* blocks, the last of which may lack its closing fence
Replies ==
    ClosedTexts(MaxBlocks) \cup
    {t \o open \o b :
       t \in ClosedTexts(MaxBlocks - 1), open \in {JsonFence, Fence}, b \in Bodies}

\* a sample of them: a closed json-tagged block, a block with malformed JSON
\* and prose after it, prose without a fence, a block that is not closed
SampleReplies ==
    {JsonFence \o <<" ">> \o ObjText \o <<"\n">> \o Fence,
     Fence \o <<"[", "1", ",", "]">> \o Fence \o <<" ", "x">>,
     <<"x", " ">> \o ObjText,
     Fence \o ObjText}

-----------------------------------------------------------------------------
(* JSON texts: the bodies of the HTTP requests and the replies of the model *)
(* that hold the data of a task                                            *)

\* the field names of the schemas, as texts
Key ==
    [notes |-> <<"n", "o", "t", "e", "s">>,
     question |-> <<"q", "u", "e", "s", "t", "i", "o", "n">>,
     context |-> <<"c", "o", "n", "t", "e", "x", "t">>,
     document |-> <<"d", "o", "c", "u", "m", "e", "n", "t">>,
     subject |-> <<"s", "u", "b", "j", "e", "c", "t">>,
     difficulty_level |->
         <<"d", "i", "f", "f", "i", "c", "u", "l", "t", "y", "_", "l", "e", "v", "e", "l">>,
     duration_weeks |->
         <<"d", "u", "r", "a", "t", "i", "o", "n", "_", "w", "e", "e", "k", "s">>,
     content |-> <<"c", "o", "n", "t", "e", "n", "t">>,
     num_questions |->
         <<"n", "u", "m", "_", "q", "u", "e", "s", "t", "i", "o", "n", "s">>,
     include_explanations |->
         <<"i", "n", "c", "l", "u", "d", "e", "_", "e", "x", "p", "l", "a", "n", "a", "t", "i", "o", "n", "s">>,
     num_flashcards |->
         <<"n", "u", "m", "_", "f", "l", "a", "s", "h", "c", "a", "r", "d", "s">>,
     focus_areas |->
         <<"f", "o", "c", "u", "s", "_", "a", "r", "e", "a", "s">>,
     total_weeks |->
         <<"t", "o", "t", "a", "l", "_", "w", "e", "e", "k", "s">>,
     overview |-> <<"o", "v", "e", "r", "v", "i", "e", "w">>,
     weeks |-> <<"w", "e", "e", "k", "s">>,
     prerequisites |->
         <<"p", "r", "e", "r", "e", "q", "u", "i", "s", "i", "t", "e", "s">>,
     week_number |->
         <<"w", "e", "e", "k", "_", "n", "u", "m", "b", "e", "r">>,
     title |-> <<"t", "i", "t", "l", "e">>,
     topics |-> <<"t", "o", "p", "i", "c", "s">>,
     learning_objectives |->
         <<"l", "e", "a", "r", "n", "i", "n", "g", "_", "o", "b", "j", "e", "c", "t", "i", "v", "e", "s">>,
     suggested_activities |->
         <<"s", "u", "g", "g", "e", "s", "t", "e", "d", "_", "a", "c", "t", "i", "v", "i", "t", "i", "e", "s">>,
     total_questions |->
         <<"t", "o", "t", "a", "l", "_", "q", "u", "e", "s", "t", "i", "o", "n", "s">>,
     questions |-> <<"q", "u", "e", "s", "t", "i", "o", "n", "s">>,
     question_number |->
         <<"q", "u", "e", "s", "t", "i", "o", "n", "_", "n", "u", "m", "b", "e", "r">>,
     options |-> <<"o", "p", "t", "i", "o", "n", "s">>,
     option |-> <<"o", "p", "t", "i", "o", "n">>,
     text |-> <<"t", "e", "x", "t">>,
     correct_answer |->
         <<"c", "o", "r", "r", "e", "c", "t", "_", "a", "n", "s", "w", "e", "r">>,
     explanation |->
         <<"e", "x", "p", "l", "a", "n", "a", "t", "i", "o", "n">>,
     difficulty |-> <<"d", "i", "f", "f", "i", "c", "u", "l", "t", "y">>,
     total_cards |->
         <<"t", "o", "t", "a", "l", "_", "c", "a", "r", "d", "s">>,
     flashcards |-> <<"f", "l", "a", "s", "h", "c", "a", "r", "d", "s">>,
     card_number |->
         <<"c", "a", "r", "d", "_", "n", "u", "m", "b", "e", "r">>,
     front |-> <<"f", "r", "o", "n", "t">>,
     back |-> <<"b", "a", "c", "k">>,
     category |-> <<"c", "a", "t", "e", "g", "o", "r", "y">>]

\* the text of a JSON string
JStr(s) == <<"\"">> \o s \o <<"\"">>

RECURSIVE JoinComma(_)
JoinComma(items) ==
    IF Len(items) = 0 THEN << >>
    ELSE IF Len(items) = 1 THEN items[1]
    ELSE items[1] \o <<",">> \o JoinComma(Tail(items))

\* the text of a JSON array of the given item texts
JArr(items) == <<"[">> \o JoinComma(items) \o <<"]">>

\* one "name": value of a JSON object
Member(k, v) == JStr(k) \o <<":">> \o v

\* the text of a JSON object of the given members
JObj(members) == <<"{">> \o JoinComma(members) \o <<"}">>

Medium == <<"m", "e", "d", "i", "u", "m">>

\* a question with the given number, option labels and correct answer; an
\* option is {"option": label, "text": "t"}
QuestionJson(n, labels, answer) ==
    JObj(<<Member(Key.question_number, IntToStr(n)),
           Member(Key.question, JStr(<<"q", "?">>)),
           Member(Key.options,
                  JArr([i \in 1..Len(labels) |->
                          JObj(<<Member(Key.option, JStr(<<labels[i]>>)),
                                 Member(Key.text, JStr(<<"t">>))>>)])),
           Member(Key.correct_answer, JStr(<<answer>>))>>)

\* the object the MCQ prompt asks for
MCQJson(total, questions) ==
    JObj(<<Member(Key.total_questions, total),
           Member(Key.difficulty_level, JStr(Medium)),
           Member(Key.questions, questions)>>)

\* three well-formed questions
MCQThree ==
    MCQJson(<<"3">>, JArr(<<QuestionJson(1, <<"A", "B", "C", "D">>, "A"),
                           QuestionJson(2, <<"A", "B", "C", "D">>, "D"),
                           QuestionJson(3, <<"A", "B", "C", "D">>, "B")>>))

\* replies to the MCQ task: one well-formed question; three of them in a
\* json-tagged fence; a declared count of 3 with no question; a question
\* with one option labelled X and the answer E; questions that is no list;
\* an object without the key questions
MCQReplies ==
    {MCQJson(<<"1">>, JArr(<<QuestionJson(1, <<"A", "B", "C", "D">>, "A")>>)),
     JsonFence \o <<"\n">> \o MCQThree \o <<"\n">> \o Fence,
     MCQJson(<<"3">>, JArr(<< >>)),
     MCQJson(<<"1">>, JArr(<<QuestionJson(1, <<"X">>, "E")>>)),
     MCQJson(<<"1">>, <<"1">>),
     JObj(<<Member(Key.total_questions, <<"1">>),
            Member(Key.difficulty_level, JStr(Medium))>>)}

\* a flashcard with the given number
CardJson(n) ==
    JObj(<<Member(Key.card_number, IntToStr(n)),
           Member(Key.front, JStr(<<"f">>)),
           Member(Key.back, JStr(<<"b">>))>>)

\* the object the flashcards prompt asks for
FlashcardsJson(total, cards) ==
    JObj(<<Member(Key.total_cards, total),
           Member(Key.focus_areas, JStr(<<"k", "e", "y">>)),
           Member(Key.flashcards, cards)>>)

\* replies to the flashcards task: one card; a declared count of 2 with one
\* card; a card without its back; an object without the key focus_areas; an
\* object without the key flashcards
FlashcardsReplies ==
    {FlashcardsJson(<<"1">>, JArr(<<CardJson(1)>>)),
     FlashcardsJson(<<"2">>, JArr(<<CardJson(1)>>)),
     FlashcardsJson(<<"1">>,
        JArr(<<JObj(<<Member(Key.card_number, <<"1">>), Member(Key.front, JStr(<<"f">>))>>)>>)),
     JObj(<<Member(Key.total_cards, <<"1">>), Member(Key.flashcards, JArr(<<CardJson(1)>>))>>),
     JObj(<<Member(Key.total_cards, <<"1">>), Member(Key.focus_areas, LitNull)>>)}

\* a week with the given number
WeekJson(n) ==
    JObj(<<Member(Key.week_number, IntToStr(n)),
           Member(Key.title, JStr(<<"w">>)),
           Member(Key.topics, JArr(<<JStr(<<"t">>)>>)),
           Member(Key.learning_objectives, JArr(<< >>))>>)

\* the object the curriculum prompt asks for
CurriculumJson(total, weeks) ==
    JObj(<<Member(Key.subject, JStr(<<"M", "L">>)),
           Member(Key.difficulty_level, JStr(Medium)),
           Member(Key.total_weeks, total),
           Member(Key.overview, JStr(<<"o">>)),
           Member(Key.prerequisites, LitNull),
           Member(Key.weeks, weeks)>>)

\* replies to the curriculum task: one week; a declared count of 8 with one
\* week; a count that is no number; an object without the key prerequisites;
\* an object without the key weeks
CurriculumReplies ==
    {CurriculumJson(<<"1">>, JArr(<<WeekJson(1)>>)),
     CurriculumJson(<<"8">>, JArr(<<WeekJson(1)>>)),
     CurriculumJson(JStr(<<"x">>), JArr(<<WeekJson(1)>>)),
     JObj(<<Member(Key.subject, JStr(<<"M", "L">>)),
            Member(Key.difficulty_level, JStr(Medium)),
            Member(Key.total_weeks, <<"1">>),
            Member(Key.overview, JStr(<<"o">>)),
            Member(Key.weeks, JArr(<<WeekJson(1)>>))>>),
     JObj(<<Member(Key.subject, JStr(<<"M", "L">>)),
            Member(Key.difficulty_level, JStr(Medium)),
            Member(Key.total_weeks, <<"1">>),
            Member(Key.overview, JStr(<<"o">>)),
            Member(Key.prerequisites, LitNull)>>)}


-----------------------------------------------------------------------------
\* the replies a call is run against.  The arguments of a call do not reach
\* _parse_json_response, and its three copies are the same code: every reply
\* is run against one call of generate_mcqs, the sample against the others,
\* and the replies that hold a task's data, and those that hold JSON that is
\* no object (an array, a number, a string, null), against every call of
\* that task.
RepliesFor(t, a) ==
    (IF t = "mcq" /\ a = MCQDefaults THEN Replies ELSE SampleReplies)
    \cup {<<"[", "1", "]">>, <<"1">>, JStr(<<"s">>), LitNull}
    \cup (CASE t = "curriculum" -> CurriculumReplies
            [] t = "mcq"        -> MCQReplies
            [] t = "flashcards" -> FlashcardsReplies)

ChatReplies == {<<" ", "o", "k", "\n">>, <<"n", "o">>}

\* str(e) of an exception raised by the call to the model
ModelErrors == {<<"429 Resource has been exhausted">>}

-----------------------------------------------------------------------------
(* The service methods                                                     *)

StructuredTasks == {"curriculum", "mcq", "flashcards"}

\* the name of the service method of a task
Method(t) ==
    CASE t = "chat"       -> "chat_with_notes"
      [] t = "curriculum" -> "generate_curriculum"
      [] t = "mcq"        -> "generate_mcqs"
      [] t = "flashcards" -> "generate_flashcards"

\* the prefix of the Exception a service method raises
FailedPrefix(t) ==
    CASE t = "chat"       -> "Failed to generate answer: "
      [] t = "curriculum" -> "Failed to generate curriculum: "
      [] t = "mcq"        -> "Failed to generate MCQs: "
      [] t = "flashcards" -> "Failed to generate flashcards: "

\* except Exception as e: logger.error(...); raise Exception(f"Failed ...: {str(e)}")
Reraise(t, message) == Raised("Exception", <<FailedPrefix(t)>> \o message)

\* the message of the logger.error call that precedes it
ReraiseLog(t, message) == <<"Error in ", Method(t), ": ">> \o message

\* no response has been sent
NoBody == [none |-> TRUE]

\* self.llm = ChatGoogleGenerativeAI(model=settings.model_name, ...): the
\* client a service singleton builds from the settings when its module is
\* imported; the temperature 0.7 is in tenths
ChatGoogleGenerativeAI ==
    [max_output_tokens |-> None, model |-> "gemini-pro", temperature |-> 7]

Init ==
    /\ pc = "idle"
    /\ task = "none"
    /\ args = << >>
    /\ prompt = << >>
    /\ reply = << >>
    /\ response = << >>
    /\ parsed = NoOutcome
    /\ result = NoOutcome
    /\ log = << >>
    /\ debug_mode = FALSE
    /\ request = << >>
    /\ status = 0
    /\ body = NoBody
    /\ path = << >>
    /\ llm = [chat |-> ChatGoogleGenerativeAI, curriculum |-> ChatGoogleGenerativeAI,
              flashcards |-> ChatGoogleGenerativeAI, mcq |-> ChatGoogleGenerativeAI]
    /\ waiting = {}
    /\ answered = << >>

\* a service method is called: it renders its prompt and suspends in
\* chain.ainvoke, waiting for the model
Call(t, a) ==
    /\ pc = "idle"
    /\ pc' = "awaiting"
    /\ task' = t
    /\ args' = a
    /\ prompt' = RenderPrompt(t, a)
    /\ UNCHANGED <<reply, response, parsed, result, log>>
    /\ UNCHANGED <<debug_mode, request, status, body, path, llm, waiting, answered>>

chat_with_notes == \E a \in ChatArgs : Call("chat", a)

generate_curriculum == \E a \in CurriculumArgs : Call("curriculum", a)

generate_mcqs == \E a \in MCQArgs : Call("mcq", a)

generate_flashcards == \E a \in FlashcardsArgs : Call("flashcards", a)

\* ChatReturns with a confidence that falls with the length of the answer
ChatReturnsScored ==
    /\ pc = "awaiting"
    /\ task = "chat"
    /\ \E text \in ChatReplies :
         /\ reply' = text
         /\ result' = Returned(
              [answer |-> PyStrip(text),
               confidence |-> Confidence - Len(PyStrip(text)),
               sources |-> extract_relevant_snippets(args.notes, args.question,
                                                     max_snippets)])
    /\ pc' = "done"
    /\ UNCHANGED <<task, args, prompt, response, parsed, log>>
    /\ UNCHANGED <<debug_mode, request, status, body, path, llm, waiting, answered>>

\* the model replies to the chat task: the method returns its dict
ChatReturns ==
    /\ pc = "awaiting"
    /\ task = "chat"
    /\ \E text \in ChatReplies :
         /\ reply' = text
         /\ result' = Returned(
              [answer |-> PyStrip(text),
               confidence |-> Confidence,
               sources |-> extract_relevant_snippets(args.notes, args.question,
                                                     max_snippets)])
    /\ pc' = "done"
    /\ UNCHANGED <<task, args, prompt, response, parsed, log>>
    /\ UNCHANGED <<debug_mode, request, status, body, path, llm, waiting, answered>>

\* the model replies to a structured task: the method parses the reply and
\* returns the parsed data, or logs and re-raises the extractor's error
StructuredReturns ==
    /\ pc = "awaiting"
    /\ task \in StructuredTasks
    /\ \E text \in RepliesFor(task, args) :
         LET out == parse_json_response(text)
         IN  /\ reply' = text
             /\ response' = ExtractFenced(text)
             /\ parsed' = out
             /\ result' = IF out.ok THEN out
                          ELSE Reraise(task, out.error.message)
             /\ log' = IF out.ok THEN log
                       ELSE log \o parse_json_log(text)
                                \o << ReraiseLog(task, out.error.message) >>
    /\ pc' = "done"
    /\ UNCHANGED <<task, args, prompt>>
    /\ UNCHANGED <<debug_mode, request, status, body, path, llm, waiting, answered>>

\* ModelRaises that logs the error and calls the model again
ModelRaisesRetry ==
    /\ pc = "awaiting"
    /\ Len(log) < 3
    /\ \E e \in ModelErrors :
         /\ result' = NoOutcome
         /\ log' = log \o << ReraiseLog(task, e) >>
    /\ pc' = "awaiting"
    /\ UNCHANGED <<task, args, prompt, reply, response, parsed>>
    /\ UNCHANGED <<debug_mode, request, status, body, path, llm, waiting, answered>>

\* ModelRaises that builds the client of the task again, with temperature 0
ModelRaisesRebuild ==
    /\ pc = "awaiting"
    /\ \E e \in ModelErrors :
         /\ result' = Reraise(task, e)
         /\ log' = log \o << ReraiseLog(task, e) >>
    /\ llm' = [llm EXCEPT ![task] = [ChatGoogleGenerativeAI EXCEPT !.temperature = 0]]
    /\ pc' = "done"
    /\ UNCHANGED <<task, args, prompt, reply, response, parsed>>
    /\ UNCHANGED <<debug_mode, request, status, body, path, waiting, answered>>

\* the call to the model raises: the method logs and re-raises
ModelRaises ==
    /\ pc = "awaiting"
    /\ \E e \in ModelErrors :
         /\ result' = Reraise(task, e)
         /\ log' = log \o << ReraiseLog(task, e) >>
    /\ pc' = "done"
    /\ UNCHANGED <<task, args, prompt, reply, response, parsed>>
    /\ UNCHANGED <<debug_mode, request, status, body, path, llm, waiting, answered>>

Next ==
    \/ chat_with_notes
    \/ generate_curriculum
    \/ generate_mcqs
    \/ generate_flashcards
    \/ ChatReturns
    \/ StructuredReturns
    \/ ModelRaises

Spec == Init /\ [][Next]_vars

-----------------------------------------------------------------------------
(* Python objects.  json.loads gives its value as canonical text; Decode   *)
(* gives the Python object that text stands for, which the schemas and the *)
(* routes read.                                                            *)

RECURSIVE DigitsValue(_)
DigitsValue(ds) ==
    IF Len(ds) = 0 THEN 0
    ELSE 10 * DigitsValue(SubSeq(ds, 1, Len(ds) - 1)) 
         + (CHOOSE d \in 0..9 : DigitChars[d + 1] = ds[Len(ds)])

\* int(cs) of the text of an integer
IntOfText(cs) == IF cs[1] = "-" THEN 0 - DigitsValue(Tail(cs)) ELSE DigitsValue(cs)

\* the (key, value) texts of an object, in the order of the text; i is the
\* index of the opening quote of the next key
RECURSIVE PairsFrom(_, _)
PairsFrom(v, i) ==
    LET k    == scanstring(v, i + 1)
        x    == scan_once(v, k.end + 1)
        pair == [key |-> SubSeq(k.val, 2, Len(k.val) - 1), value |-> x.val]
    IN  IF CharAt(v, x.end) = "," THEN <<pair>> \o PairsFrom(v, x.end + 1)
        ELSE <<pair>>

\* the item texts of an array; i is the index of the next item
RECURSIVE ItemsFrom(_, _)
ItemsFrom(v, i) ==
    LET x == scan_once(v, i)
    IN  IF CharAt(v, x.end) = "," THEN <<x.val>> \o ItemsFrom(v, x.end + 1)
        ELSE <<x.val>>

\* the Python object of a canonical JSON text
RECURSIVE Decode(_)
Decode(v) ==
    LET c == CharAt(v, 0)
    IN  CASE c = "{" ->
               LET pairs == IF CharAt(v, 1) = "}" THEN << >> ELSE PairsFrom(v, 1)
               IN  [type  |-> "dict",
                    items |-> [i \in DOMAIN pairs |->
                                 [key   |-> pairs[i].key,
                                  value |-> Decode(pairs[i].value)]]]
          [] c = "[" ->
               LET items == IF CharAt(v, 1) = "]" THEN << >> ELSE ItemsFrom(v, 1)
               IN  [type  |-> "list",
                    items |-> [i \in DOMAIN items |-> Decode(items[i])]]
          [] c = "\"" -> [type |-> "str", str |-> SubSeq(v, 2, Len(v) - 1)]
          [] c = "n"  -> NoneObj
          [] c \in {"t", "f"} -> [type |-> "bool", bool |-> (c = "t")]
          [] OTHER    -> IntObj(IntOfText(v))

\* type(x).__name__
TypeOf(x) == x.type

\* key in d
HasKey(d, key) == \E i \in DOMAIN d.items : d.items[i].key = key

\* d[key] of a dict that holds key: the last pair of that name wins
GetItem(d, key) ==
    LET last == CHOOSE i \in DOMAIN d.items :
                    /\ d.items[i].key = key
                    /\ \A j \in DOMAIN d.items : d.items[j].key = key => j <= i
    IN  d.items[last].value

\* the value an object holds under key, or the marker of a field it does
\* not hold
Given(d, key) ==
    IF TypeOf(d) = "dict" /\ HasKey(d, key) THEN GetItem(d, key)
    ELSE [type |-> "missing"]

\* the items of a list, and none of any other object
Items(v) == IF TypeOf(v) = "list" THEN v.items ELSE << >>

-----------------------------------------------------------------------------
(* pydantic: the validation of a Python object against a field type, in    *)
(* the lax mode the schemas run in.  A validation gives the validated      *)
(* value, or fails.                                                        *)

Valid(x) == [ok |-> TRUE, val |-> x]

Invalid == [ok |-> FALSE, val |-> None]

\* str
StrField(v) == IF TypeOf(v) = "str" THEN Valid(v.str) ELSE Invalid

\* str, Field(min_length=n)
StrMinLength(v, n) ==
    IF TypeOf(v) = "str" /\ Len(v.str) >= n THEN Valid(v.str) ELSE Invalid

\* int: an int, a bool, or a str that reads as an integer
IntField(v) ==
    CASE TypeOf(v) = "int"  -> Valid(v.int)
      [] TypeOf(v) = "bool" -> Valid(IF v.bool THEN 1 ELSE 0)
      [] /\ TypeOf(v) = "str"
         /\ LET ds == IF Len(v.str) > 0 /\ v.str[1] = "-" THEN Tail(v.str)
                      ELSE v.str
            IN  Len(ds) > 0 /\ \A i \in DOMAIN ds : ds[i] \in Digits
           -> Valid(IntOfText(v.str))
      [] OTHER -> Invalid

\* IntRange with both bounds exclusive
IntRangeExclusive(v, lo, hi) ==
    IF IntField(v).ok /\ IntField(v).val > lo /\ IntField(v).val < hi
    THEN IntField(v) ELSE Invalid

\* int, Field(ge=lo, le=hi)
IntRange(v, lo, hi) ==
    IF IntField(v).ok /\ IntField(v).val >= lo /\ IntField(v).val <= hi
    THEN IntField(v) ELSE Invalid

\* bool: a bool, or the int 0 or 1
BoolField(v) ==
    CASE TypeOf(v) = "bool" -> Valid(v.bool)
      [] TypeOf(v) = "int" /\ v.int \in {0, 1} -> Valid(v.int = 1)
      [] OTHER -> Invalid

\* Optional[str]
OptionalStr(v) == IF TypeOf(v) = "NoneType" THEN Valid(None) ELSE StrField(v)

\* Optional[int], Field(ge=lo, le=hi): the bounds are not applied to None
OptionalIntRange(v, lo, hi) ==
    IF TypeOf(v) = "NoneType" THEN Valid(NoneObj)
    ELSE IF IntRange(v, lo, hi).ok THEN Valid(IntObj(IntRange(v, lo, hi).val))
    ELSE Invalid

\* List[T], given the validation of each item of v against T: the
\* validated items, when v is a list and every item is valid
ListOf(v, each) ==
    IF TypeOf(v) = "list" /\ \A i \in DOMAIN each : each[i].ok
    THEN Valid([i \in DOMAIN each |-> each[i].val])
    ELSE Invalid

\* List[str]
StrList(v) == ListOf(v, [i \in DOMAIN Items(v) |-> StrField(Items(v)[i])])

\* Optional[List[str]]
OptionalStrList(v) == IF TypeOf(v) = "NoneType" THEN Valid(None) ELSE StrList(v)

\* a field declared with a default, given the value v the object holds for
\* it and the validation of v: the default stands in, unvalidated, for a
\* field the object does not hold.  (A field declared Field(...) is
\* required: the marker of a missing field fails every validation.)
Defaulted(v, validated, default) ==
    IF TypeOf(v) = "missing" THEN Valid(default) ELSE validated

\* a model of the given validated fields: its field values, when every
\* field is valid
Model(fields) ==
    IF \A n \in DOMAIN fields : fields[n].ok
    THEN Valid([n \in DOMAIN fields |-> fields[n].val])
    ELSE Invalid

\* a nested model: the object must be a dict
ModelOf(v, fields) == IF TypeOf(v) = "dict" THEN Model(fields) ELSE Invalid

\* a request model: as Model, with the names of the fields that failed, in
\* the order given
RequestOf(names, fields) ==
    [ok     |-> \A n \in DOMAIN fields : fields[n].ok,
     val    |-> [n \in DOMAIN fields |-> fields[n].val],
     errors |-> SelectSeq(names, LAMBDA n : ~fields[n].ok)]

-----------------------------------------------------------------------------
(* The request schemas.  A request model validates the object decoded from *)
(* the request body and gives the fields the route reads, or the names of  *)
(* the fields that failed.                                                 *)

\* class ChatWithNotesRequest
ChatWithNotesRequest(d) ==
    RequestOf(<<"notes", "question", "context">>,
        [notes    |-> StrMinLength(Given(d, Key.notes), 10),
         question |-> StrMinLength(Given(d, Key.question), 3),
         context  |-> Defaulted(Given(d, Key.context),
                                OptionalStr(Given(d, Key.context)), None)])

\* class GenerateCurriculumRequest
GenerateCurriculumRequest(d) ==
    RequestOf(<<"document", "subject", "difficulty_level", "duration_weeks">>,
        [document |-> StrMinLength(Given(d, Key.document), 50),
         subject  |-> Defaulted(Given(d, Key.subject),
                                OptionalStr(Given(d, Key.subject)), None),
         difficulty_level |->
             Defaulted(Given(d, Key.difficulty_level),
                       OptionalStr(Given(d, Key.difficulty_level)),
                       <<"i", "n", "t", "e", "r", "m", "e", "d", "i", "a", "t", "e">>),
         duration_weeks |->
             Defaulted(Given(d, Key.duration_weeks),
                       OptionalIntRange(Given(d, Key.duration_weeks), 1, 52),
                       IntObj(8))])

\* class GenerateMCQRequest
GenerateMCQRequest(d) ==
    RequestOf(<<"content", "num_questions", "difficulty_level", "include_explanations">>,
        [content |-> StrMinLength(Given(d, Key.content), 50),
         num_questions |->
             Defaulted(Given(d, Key.num_questions),
                       IntRange(Given(d, Key.num_questions), 1, 20), 5),
         difficulty_level |->
             Defaulted(Given(d, Key.difficulty_level),
                       OptionalStr(Given(d, Key.difficulty_level)), Medium),
         include_explanations |->
             Defaulted(Given(d, Key.include_explanations),
                       BoolField(Given(d, Key.include_explanations)), TRUE)])

\* class GenerateFlashcardsRequest
GenerateFlashcardsRequest(d) ==
    RequestOf(<<"content", "num_flashcards", "focus_areas">>,
        [content |-> StrMinLength(Given(d, Key.content), 50),
         num_flashcards |->
             Defaulted(Given(d, Key.num_flashcards),
                       IntRange(Given(d, Key.num_flashcards), 1, 50), 10),
         focus_areas |->
             Defaulted(Given(d, Key.focus_areas),
                       OptionalStr(Given(d, Key.focus_areas)), None)])

\* the request model of a route
RequestModel(t, d) ==
    CASE t = "chat"       -> ChatWithNotesRequest(d)
      [] t = "curriculum" -> GenerateCurriculumRequest(d)
      [] t = "mcq"        -> GenerateMCQRequest(d)
      [] t = "flashcards" -> GenerateFlashcardsRequest(d)

-----------------------------------------------------------------------------
(* The response schemas.  A nested model validates an object; a response   *)
(* model validates the keyword arguments the route gives it.               *)

\* datetime.now()
Now == "now"

\* class MCQOption
MCQOption(v) ==
    ModelOf(v, [option |-> StrField(Given(v, Key.option)),
                text   |-> StrField(Given(v, Key.text))])

\* List[MCQOption]
OptionList(v) == ListOf(v, [i \in DOMAIN Items(v) |-> MCQOption(Items(v)[i])])

\* class MCQQuestion
MCQQuestion(v) ==
    ModelOf(v, [question_number |-> IntField(Given(v, Key.question_number)),
                question        |-> StrField(Given(v, Key.question)),
                options         |-> OptionList(Given(v, Key.options)),
                correct_answer  |-> StrField(Given(v, Key.correct_answer)),
                explanation     |-> Defaulted(Given(v, Key.explanation),
                                              OptionalStr(Given(v, Key.explanation)),
                                              None),
                difficulty      |-> Defaulted(Given(v, Key.difficulty),
                                              OptionalStr(Given(v, Key.difficulty)),
                                              None)])

\* List[MCQQuestion]
QuestionList(v) == ListOf(v, [i \in DOMAIN Items(v) |-> MCQQuestion(Items(v)[i])])

\* class MCQResponse
MCQResponse(total_questions, difficulty_level, questions, timestamp) ==
    Model([total_questions  |-> IntField(total_questions),
           difficulty_level |-> StrField(difficulty_level),
           questions        |-> QuestionList(questions),
           timestamp        |-> Valid(timestamp)])

\* class Flashcard
Flashcard(v) ==
    ModelOf(v, [card_number |-> IntField(Given(v, Key.card_number)),
                front       |-> StrField(Given(v, Key.front)),
                back        |-> StrField(Given(v, Key.back)),
                category    |-> Defaulted(Given(v, Key.category),
                                          OptionalStr(Given(v, Key.category)), None),
                difficulty  |-> Defaulted(Given(v, Key.difficulty),
                                          OptionalStr(Given(v, Key.difficulty)), None)])

\* List[Flashcard]
CardList(v) == ListOf(v, [i \in DOMAIN Items(v) |-> Flashcard(Items(v)[i])])

\* class FlashcardsResponse
FlashcardsResponse(total_cards, focus_areas, flashcards, timestamp) ==
    Model([total_cards |-> IntField(total_cards),
           focus_areas |-> OptionalStr(focus_areas),
           flashcards  |-> CardList(flashcards),
           timestamp   |-> Valid(timestamp)])

\* class CurriculumWeek
CurriculumWeek(v) ==
    ModelOf(v, [week_number |-> IntField(Given(v, Key.week_number)),
                title       |-> StrField(Given(v, Key.title)),
                topics      |-> StrList(Given(v, Key.topics)),
                learning_objectives |-> StrList(Given(v, Key.learning_objectives)),
                suggested_activities |->
                    Defaulted(Given(v, Key.suggested_activities),
                              OptionalStrList(Given(v, Key.suggested_activities)),
                              None)])

\* class CurriculumResponse, given its keyword arguments as a record
CurriculumResponse(kw) ==
    Model([subject          |-> StrField(kw.subject),
           difficulty_level |-> StrField(kw.difficulty_level),
           total_weeks      |-> IntField(kw.total_weeks),
           overview         |-> StrField(kw.overview),
           weeks            |-> ListOf(kw.weeks,
                                      [i \in DOMAIN Items(kw.weeks) |->
                                         CurriculumWeek(Items(kw.weeks)[i])]),
           prerequisites    |-> OptionalStrList(kw.prerequisites),
           timestamp        |-> Valid(kw.timestamp)])

\* class ChatResponse, given the values of the dict chat_with_notes returns:
\* a str, a float and a list of str
ChatResponse(answer, confidence, sources, timestamp) ==
    Valid([answer |-> answer, confidence |-> confidence, sources |-> sources,
           timestamp |-> timestamp])

-----------------------------------------------------------------------------
(* The routes                                                              *)

\* the name of the route handler of a task
Endpoint(t) ==
    CASE t = "chat"       -> "chat_with_notes"
      [] t = "curriculum" -> "generate_curriculum"
      [] t = "mcq"        -> "generate_mcq"
      [] t = "flashcards" -> "generate_flashcards"

\* the prefix of the detail of the HTTPException a route raises
DetailPrefix(t) ==
    CASE t = "chat"       -> "Failed to process chat request: "
      [] t = "curriculum" -> "Failed to generate curriculum: "
      [] t = "mcq"        -> "Failed to generate MCQs: "
      [] t = "flashcards" -> "Failed to generate flashcards: "

\* v[key] of an object v
Subscript(v, key) ==
    CASE TypeOf(v) = "dict" ->
           IF HasKey(v, key) THEN Returned(GetItem(v, key))
           ELSE Raised("KeyError", <<"'">> \o key \o <<"'">>)
      [] TypeOf(v) = "list" ->
           Raised("TypeError", <<"list indices must be integers or slices, not str">>)
      [] TypeOf(v) = "str" ->
           Raised("TypeError", <<"string indices must be integers, not 'str'">>)
      [] OTHER ->
           Raised("TypeError", <<"'", TypeOf(v), "' object is not subscriptable">>)

\* d.get(key, "general") of a dict
DictGetGeneral(d, key) ==
    IF HasKey(d, key) THEN GetItem(d, key)
    ELSE [type |-> "str", str |-> <<"g", "e", "n", "e", "r", "a", "l">>]

\* d.get(key) of a dict
DictGet(d, key) == IF HasKey(d, key) THEN GetItem(d, key) ELSE NoneObj

\* XResponse(...), given the outcomes of the subscripts among its arguments
\* and the validation m of the arguments: the first exception of a
\* subscript, else the model, else the model's ValidationError, whose str
\* is given by its first line without the count
Construct(read, m, model) ==
    IF \E i \in DOMAIN read : ~read[i].ok
    THEN read[SetMin({i \in DOMAIN read : ~read[i].ok})]
    ELSE IF m.ok THEN Returned(m.val)
    ELSE Raised("ValidationError", <<"validation error for ", model>>)

\* CurriculumResponse(subject=result["subject"], ...)
BuildCurriculum(read, prerequisites) ==
    Construct(read,
              CurriculumResponse([subject          |-> read[1].value,
                                  difficulty_level |-> read[2].value,
                                  total_weeks      |-> read[3].value,
                                  overview         |-> read[4].value,
                                  weeks            |-> read[5].value,
                                  prerequisites    |-> prerequisites,
                                  timestamp        |-> Now]),
              "CurriculumResponse")

\* MCQResponse(total_questions=result["total_questions"], ...)
BuildMCQ(read) ==
    Construct(read, MCQResponse(read[1].value, read[2].value, read[3].value, Now),
              "MCQResponse")

\* FlashcardsResponse(total_cards=result["total_cards"], ...)
BuildFlashcards(read, focus_areas) ==
    Construct(read, FlashcardsResponse(read[1].value, focus_areas, read[2].value, Now),
              "FlashcardsResponse")

\* the statement  return XResponse(...)  of a route, given the object v the
\* service returned: the response model, or the exception raised on the way
BuildResponse(t, v) ==
    CASE t = "chat" ->
           Returned(ChatResponse(v.answer, v.confidence, v.sources, Now).val)
      [] t = "curriculum" ->
           BuildCurriculum(<<Subscript(v, Key.subject),
                             Subscript(v, Key.difficulty_level),
                             Subscript(v, Key.total_weeks), Subscript(v, Key.overview),
                             Subscript(v, Key.weeks)>>,
                           DictGet(v, Key.prerequisites))
      [] t = "mcq" ->
           BuildMCQ(<<Subscript(v, Key.total_questions), Subscript(v, Key.difficulty_level),
                      Subscript(v, Key.questions)>>)
      [] t = "flashcards" ->
           BuildFlashcards(<<Subscript(v, Key.total_cards), Subscript(v, Key.flashcards)>>,
                           DictGet(v, Key.focus_areas))

\* the body of the try statement of a route after the service call: the
\* exception of the service when it raised, else the response built from
\* the object the service returned
RouteOutcome(t, res) ==
    IF ~res.ok THEN res
    ELSE IF t = "chat" THEN BuildResponse(t, res.value)
    ELSE BuildResponse(t, Decode(res.value))

\* API_PREFIX = "/api/v1", as path segments
API_PREFIX == <<"/api", "/v1">>

\* APIRouter(prefix=...) of the router modules of app/routes
RouterPrefix(r) ==
    CASE r = "chat"       -> <<"/chat">>
      [] r = "curriculum" -> <<"/curriculum">>
      [] r = "mcq"        -> <<"/mcq">>
      [] r = "flashcards" -> <<"/flashcards">>
      [] r = "education"  -> <<"/api", "/v1", "/education">>

\* app.include_router(r, prefix=API_PREFIX): the routes the router declares,
\* under the two prefixes.  A task router declares POST "" and GET
\* "/health"; education.py declares a POST for each task and GET "/health".
include_router(r) ==
    {<<x[1], API_PREFIX \o RouterPrefix(r) \o x[2]>> :
       x \in IF r = "education"
             THEN {<<"POST", <<"/chat">> >>, <<"POST", <<"/curriculum">> >>,
                   <<"POST", <<"/mcq">> >>, <<"POST", <<"/flashcards">> >>,
                   <<"GET", <<"/health">> >>}
             ELSE {<<"POST", << >> >>, <<"GET", <<"/health">> >>}}

\* the routes of the application: @app.get("/"), @app.get("/health") and the
\* four routers main.py includes.  main.py does not import education.py.
Routes ==
    {<<"GET", <<"/">> >>, <<"GET", <<"/health">> >>}
    \cup UNION {include_router(r) : r \in {"chat", "curriculum", "mcq", "flashcards"}}

\* the response FastAPI sends for  raise HTTPException(status_code, detail)
HTTPException(status_code, detail) ==
    [status |-> status_code, body |-> [detail |-> detail]]

\* the response FastAPI sends for a request body its model rejects: 422 and
\* one entry for each field that failed
RequestValidationError(errors) ==
    [status |-> 422,
     body |-> [detail |-> [i \in DOMAIN errors |-> [loc |-> <<"body", errors[i]>>]]]]

\* main.py, exception handler for Exception.  The four routes turn every
\* exception into an HTTPException, which FastAPI answers itself: no
\* exception of theirs reaches this handler.
global_exception_handler(exc, debug) ==
    [status |-> 500,
     body |-> [error |-> "Internal Server Error",
               detail |-> IF debug THEN exc ELSE <<"An unexpected error occurred">>,
               status_code |-> 500]]

-----------------------------------------------------------------------------
(* The request bodies                                                      *)

\* the most messages the error log holds when a request is taken up
MaxLogged == 1

\* a text of 50 characters
Content50 ==
    <<"P", "h", "o", "t", "o", "s", "y", "n", "t", "h", "e", "s", "i",
      "s", " ", "t", "u", "r", "n", "s", " ", "l", "i", "g", "h", "t",
      " ", "i", "n", "t", "o", " ", "c", "h", "e", "m", "i", "c", "a",
      "l", " ", "e", "n", "e", "r", "g", "y", " ", "o", "k">>

\* notes and question at their minimum lengths and one short of them, and
\* a context that is left out, null, empty or a text
ChatRequests ==
    {JObj(<<Member(Key.notes, JStr(n)), Member(Key.question, JStr(q))>> \o c) :
       n \in {<<"A", ".", " ", "B", ".", " ", "C", ".", " ", "D">>,
              <<"A", ".", " ", "B", ".", " ", "C", ".", " ">>},
       q \in {<<"w", "h", "y">>, <<"w", "h">>},
       c \in {<< >>, <<Member(Key.context, LitNull)>>,
              <<Member(Key.context, JStr(<< >>))>>,
              <<Member(Key.context, JStr(<<"c", "t", "x">>))>>}}

\* duration_weeks at and beyond its bounds, left out and null, with a
\* difficulty_level that is left out or null; a subject that is a text or
\* empty; a document that is too short
CurriculumRequests ==
    {JObj(<<Member(Key.document, JStr(Content50))>> \o w \o l) :
       w \in {<<Member(Key.duration_weeks, IntToStr(n))>> : n \in {0, 1, 52, 53}}
             \cup {<< >>, <<Member(Key.duration_weeks, LitNull)>>},
       l \in {<< >>, <<Member(Key.difficulty_level, LitNull)>>}}
    \cup {JObj(<<Member(Key.document, JStr(Content50)), Member(Key.subject, JStr(s))>>) :
            s \in {<<"M", "L">>, << >>}}
    \cup {JObj(<<Member(Key.document, JStr(SubSeq(Content50, 1, 49))),
                 Member(Key.subject, JStr(<<"M", "L">>))>>)}

\* num_questions at and beyond its bounds and left out, a content that is
\* too short, and the other two fields set
MCQRequests ==
    {JObj(<<Member(Key.content, JStr(Content50)), Member(Key.num_questions, IntToStr(n))>>) :
       n \in {0, 1, 3, 20, 21}}
    \cup {JObj(<<Member(Key.content, JStr(Content50))>>),
          JObj(<<Member(Key.content, JStr(SubSeq(Content50, 1, 49)))>>),
          JObj(<<Member(Key.content, JStr(Content50)),
                 Member(Key.difficulty_level, LitNull),
                 Member(Key.include_explanations, LitFalse)>>)}

\* num_flashcards at and beyond its bounds and left out, and focus_areas
\* set to a text and to the empty text
FlashcardsRequests ==
    {JObj(<<Member(Key.content, JStr(Content50)), Member(Key.num_flashcards, IntToStr(n))>>) :
       n \in {0, 1, 50, 51}}
    \cup {JObj(<<Member(Key.content, JStr(Content50))>>),
          JObj(<<Member(Key.content, JStr(Content50)),
                 Member(Key.focus_areas, JStr(<<"k", "e", "y">>))>>),
          JObj(<<Member(Key.content, JStr(Content50)),
                 Member(Key.focus_areas, JStr(<< >>))>>)}

-----------------------------------------------------------------------------
(* The application: requests through the four POST routes, one at a time   *)

AppInit ==
    /\ pc = "idle"
    /\ task = "none"
    /\ args = << >>
    /\ prompt = << >>
    /\ reply = << >>
    /\ response = << >>
    /\ parsed = NoOutcome
    /\ result = NoOutcome
    /\ log = << >>
    /\ debug_mode \in BOOLEAN
    /\ request = << >>
    /\ status = 0
    /\ body = NoBody
    /\ path = << >>
    /\ llm = [chat |-> ChatGoogleGenerativeAI, curriculum |-> ChatGoogleGenerativeAI,
              flashcards |-> ChatGoogleGenerativeAI, mcq |-> ChatGoogleGenerativeAI]
    /\ waiting = {}
    /\ answered = << >>

\* Handle with a prompt that carries the reply of the request before
HandleWithMemory(t, d, m) ==
    /\ request' = d
    /\ task' = t
    /\ reply' = << >>
    /\ response' = << >>
    /\ parsed' = NoOutcome
    /\ result' = NoOutcome
    /\ IF m.ok
       THEN /\ pc' = "awaiting"
            /\ args' = m.val
            /\ prompt' = RenderPrompt(t, m.val) \o reply
            /\ status' = 0
            /\ body' = NoBody
       ELSE /\ pc' = "responded"
            /\ args' = << >>
            /\ prompt' = << >>
            /\ status' = RequestValidationError(m.errors).status
            /\ body' = RequestValidationError(m.errors).body
    /\ UNCHANGED <<log, debug_mode, llm>>

\* FastAPI has validated the body d of a POST request to the route of task
\* t, with outcome m.  A body the model rejects is answered 422 and the
\* handler does not run; otherwise the handler calls the service method
\* with the fields of the model, and the method renders its prompt and
\* suspends in chain.ainvoke.
Handle(t, d, m) ==
    /\ request' = d
    /\ task' = t
    /\ reply' = << >>
    /\ response' = << >>
    /\ parsed' = NoOutcome
    /\ result' = NoOutcome
    /\ IF m.ok
       THEN /\ pc' = "awaiting"
            /\ args' = m.val
            /\ prompt' = RenderPrompt(t, m.val)
            /\ status' = 0
            /\ body' = NoBody
       ELSE /\ pc' = "responded"
            /\ args' = << >>
            /\ prompt' = << >>
            /\ status' = RequestValidationError(m.errors).status
            /\ body' = RequestValidationError(m.errors).body
    /\ UNCHANGED <<log, debug_mode, llm>>

\* a POST request with JSON body d reaches the route of task t
Post(t, d) ==
    /\ pc \in {"idle", "responded"}
    /\ Len(log) < MaxLogged
    /\ path' = <<"POST", API_PREFIX \o RouterPrefix(t)>>
    /\ Handle(t, d, RequestModel(t, Decode(d)))

post_chat == (\E d \in ChatRequests : Post("chat", d)) /\ UNCHANGED <<waiting, answered>>

post_curriculum ==
    (\E d \in CurriculumRequests : Post("curriculum", d)) /\ UNCHANGED <<waiting, answered>>

post_mcq == (\E d \in MCQRequests : Post("mcq", d)) /\ UNCHANGED <<waiting, answered>>

post_flashcards ==
    (\E d \in FlashcardsRequests : Post("flashcards", d)) /\ UNCHANGED <<waiting, answered>>

\* a request that is answered without a call to a service: FastAPI sends
\* the value the handler returned, or Starlette the response of its router
Answer(r, status_code, content) ==
    /\ pc \in {"idle", "responded"}
    /\ path' = r
    /\ status' = status_code
    /\ body' = content
    /\ pc' = "responded"
    /\ task' = "none"
    /\ request' = << >>
    /\ args' = << >>
    /\ prompt' = << >>
    /\ reply' = << >>
    /\ response' = << >>
    /\ parsed' = NoOutcome
    /\ result' = NoOutcome
    /\ UNCHANGED <<log, debug_mode, llm, waiting, answered>>

\* the dicts the health handlers return: health_check of the router of each
\* task, and global_health_check of the application
Health ==
    [chat       |-> [status |-> "healthy", service |-> "Chat with Notes Service",
                     timestamp |-> Now],
     curriculum |-> [status |-> "healthy", service |-> "Curriculum Generation Service",
                     timestamp |-> Now],
     mcq        |-> [status |-> "healthy", service |-> "MCQ Generation Service",
                     timestamp |-> Now],
     flashcards |-> [status |-> "healthy", service |-> "Flashcard Generation Service",
                     timestamp |-> Now],
     app        |-> [status |-> "healthy", service |-> "EduSense AI", version |-> "1.0.0",
                     timestamp |-> Now,
                     services |-> [chat |-> "operational", curriculum |-> "operational",
                                   mcq |-> "operational", flashcards |-> "operational"]]]

\* @router.get("/health") of the router of a task
health_check ==
    \E t \in {"chat", "curriculum", "mcq", "flashcards"} :
       Answer(<<"GET", API_PREFIX \o RouterPrefix(t) \o <<"/health">> >>, 200, Health[t])

\* @app.get("/health")
global_health_check == Answer(<<"GET", <<"/health">> >>, 200, Health.app)

\* a request of test_example.py for a method and path that match no route
\* of the application: Starlette answers 404
not_found ==
    \E r \in {<<"GET", <<"/api", "/v1", "/education", "/health">> >>,
              <<"POST", <<"/api", "/v1", "/education", "/chat">> >>,
              <<"POST", <<"/api", "/v1", "/education", "/curriculum">> >>,
              <<"POST", <<"/api", "/v1", "/education", "/mcq">> >>,
              <<"POST", <<"/api", "/v1", "/education", "/flashcards">> >>} :
       /\ r \notin Routes
       /\ Answer(r, 404, [detail |-> <<"Not Found">>])

\* Send that answers a failure with an empty result
SendFallback(t, out) ==
    IF out.ok
    THEN /\ status' = 200
         /\ body' = out.value
         /\ log' = log
    ELSE /\ status' = 200
         /\ body' = [timestamp |-> Now]
         /\ log' = log \o << <<"Error in ", Endpoint(t), " endpoint: ">>
                            \o out.error.message >>

\* a route ends with outcome out: FastAPI sends the response model with
\* status 200, or the except clause logs the exception and raises the
\* HTTPException FastAPI answers
Send(t, out) ==
    IF out.ok
    THEN /\ status' = 200
         /\ body' = out.value
         /\ log' = log
    ELSE /\ status' = HTTPException(500, <<DetailPrefix(t)>> \o out.error.message).status
         /\ body' = HTTPException(500, <<DetailPrefix(t)>> \o out.error.message).body
         /\ log' = log \o << <<"Error in ", Endpoint(t), " endpoint: ">>
                            \o out.error.message >>

\* RouteReturns that does not wait for the service method
RouteReturnsEarly ==
    /\ pc \in {"awaiting", "done"}
    /\ Send(task, RouteOutcome(task, result))
    /\ pc' = "responded"
    /\ UNCHANGED <<task, args, prompt, reply, response, parsed, result,
                   debug_mode, request, path, llm, waiting, answered>>

\* RouteReturns that calls the service method again when it raised
RouteReturnsRetry ==
    /\ pc = "done"
    /\ IF result.ok
       THEN /\ Send(task, RouteOutcome(task, result))
            /\ pc' = "responded"
            /\ UNCHANGED <<reply, response, parsed, result>>
       ELSE /\ pc' = "awaiting"
            /\ reply' = << >>
            /\ response' = << >>
            /\ parsed' = NoOutcome
            /\ result' = NoOutcome
            /\ UNCHANGED <<status, body, log>>
    /\ UNCHANGED <<task, args, prompt, debug_mode, request, path, llm, waiting, answered>>

\* the service method has returned or raised, and the route ends
RouteReturns ==
    /\ pc = "done"
    /\ Send(task, RouteOutcome(task, result))
    /\ pc' = "responded"
    /\ UNCHANGED <<task, args, prompt, reply, response, parsed, result,
                   debug_mode, request, path, llm, waiting, answered>>

AppNext ==
    \/ post_chat
    \/ post_curriculum
    \/ post_mcq
    \/ post_flashcards
    \/ health_check
    \/ global_health_check
    \/ not_found
    \/ ChatReturns
    \/ StructuredReturns
    \/ ModelRaises
    \/ RouteReturns

App == AppInit /\ [][AppNext]_vars

\* the application under the scheduling of the event loop.  A call to the
\* model that is awaited returns or raises, and the code of the route that
\* follows the service method runs to its end: weak fairness of the three
\* ends of the call and of RouteReturns, written out as
\*    []<><<A>>_vars \/ []<>~ENABLED <<A>>_vars
\* with the state predicate that ENABLED <<A>>_vars equals: an end of the
\* call is enabled exactly when pc = "awaiting" (ModelRaises has no other
\* guard), and RouteReturns exactly when pc = "done" (Send answers every
\* outcome).
FairApp ==
    /\ App
    /\ \/ []<><<ChatReturns \/ StructuredReturns \/ ModelRaises>>_vars
       \/ []<>(pc # "awaiting")
    /\ \/ []<><<RouteReturns>>_vars
       \/ []<>(pc # "done")

-----------------------------------------------------------------------------
(* Concurrent requests.  The handlers are coroutines of one event loop: a  *)
(* handler runs until it awaits chain.ainvoke, and while it waits the loop *)
(* takes up other requests.  The variables task, args, prompt, request and *)
(* path are locals of the coroutine in hand; waiting holds the locals of   *)
(* the coroutines suspended in chain.ainvoke.                              *)

\* the most requests that wait for the model while another is handled
MaxWaiting == 1

\* the coroutine in hand stays suspended in chain.ainvoke, and the event
\* loop is free for another request
Suspend ==
    /\ pc = "awaiting"
    /\ Cardinality(waiting) < MaxWaiting
    /\ waiting' = waiting \cup {[task |-> task, args |-> args, prompt |-> prompt,
                                 request |-> request, path |-> path]}
    /\ pc' = "idle"
    /\ task' = "none"
    /\ args' = << >>
    /\ prompt' = << >>
    /\ request' = << >>
    /\ path' = << >>
    /\ UNCHANGED <<reply, response, parsed, result, log, debug_mode, status, body,
                   llm, answered>>

\* Resume that goes on with the arguments of the request answered in the
\* meantime, when that request was for the same task
ResumeSharedArgs ==
    /\ pc \in {"idle", "responded"}
    /\ \E c \in waiting :
         /\ waiting' = waiting \ {c}
         /\ task' = c.task
         /\ args' = IF pc = "responded" /\ task = c.task /\ status = 200 THEN args ELSE c.args
         /\ prompt' = c.prompt
         /\ request' = c.request
         /\ path' = c.path
    /\ answered' = IF pc = "responded"
                   THEN [path |-> path, request |-> request, reply |-> reply,
                         status |-> status, body |-> body]
                   ELSE answered
    /\ pc' = "awaiting"
    /\ reply' = << >>
    /\ response' = << >>
    /\ parsed' = NoOutcome
    /\ result' = NoOutcome
    /\ status' = 0
    /\ body' = NoBody
    /\ UNCHANGED <<log, debug_mode, llm>>

\* the event loop turns to a suspended coroutine, whose call to the model
\* is about to return or raise: the coroutine goes on with its own locals.
\* The history notes the answer of the request that was in hand.
Resume ==
    /\ pc \in {"idle", "responded"}
    /\ \E c \in waiting :
         /\ waiting' = waiting \ {c}
         /\ task' = c.task
         /\ args' = c.args
         /\ prompt' = c.prompt
         /\ request' = c.request
         /\ path' = c.path
    /\ answered' = IF pc = "responded"
                   THEN [path |-> path, request |-> request, reply |-> reply,
                         status |-> status, body |-> body]
                   ELSE answered
    /\ pc' = "awaiting"
    /\ reply' = << >>
    /\ response' = << >>
    /\ parsed' = NoOutcome
    /\ result' = NoOutcome
    /\ status' = 0
    /\ body' = NoBody
    /\ UNCHANGED <<log, debug_mode, llm>>

\* a POST request reaches a task route while others may wait: two chat
\* requests with different notes, or an mcq request for three questions.
\* The history notes the answer of the request that was in hand.
post_concurrent ==
    /\ \/ \E n \in {<<"A", ".", " ", "B", ".", " ", "C", ".", " ", "D">>,
                    <<"E", ".", " ", "B", ".", " ", "C", ".", " ", "D">>} :
            Post("chat", JObj(<<Member(Key.notes, JStr(n)),
                                Member(Key.question, JStr(<<"w", "h", "y">>))>>))
       \/ Post("mcq", JObj(<<Member(Key.content, JStr(Content50)),
                             Member(Key.num_questions, IntToStr(3))>>))
    /\ answered' = IF pc = "responded"
                   THEN [path |-> path, request |-> request, reply |-> reply,
                         status |-> status, body |-> body]
                   ELSE answered
    /\ UNCHANGED waiting

\* the application with requests handled concurrently
Conc ==
    AppInit /\ [][\/ post_concurrent
                  \/ Suspend
                  \/ Resume
                  \/ ChatReturns
                  \/ StructuredReturns
                  \/ ModelRaises
                  \/ RouteReturns]_vars

-----------------------------------------------------------------------------
(* Vocabulary of the properties.  These definitions say what the           *)
(* specification means by an occurrence, a trimmed substring and a JSON    *)
(* text; they do not use the operators that model the code.                *)

\* the 0-based indices at which sub occurs in s
Occurrences(s, sub) ==
    {i \in 0..(Len(s) - Len(sub)) : \A k \in 1..Len(sub) : s[i + k] = sub[k]}

Occurs(s, sub) == Occurrences(s, sub) # {}

FirstAt(s, sub) == SetMin(Occurrences(s, sub))

\* the occurrences of sub in s that start at index from or later
OccurrencesFrom(s, sub, from) == {i \in Occurrences(s, sub) : i >= from}

\* the characters of s at the indices a .. b-1
Between(s, a, b) == [k \in 1..(b - a) |-> s[a + k]]

\* the characters of s from index a to its end
Rest(s, a) == Between(s, a, IMax(a, Len(s)))

\* s without its leading and trailing whitespace
Trim(s) ==
    LET ink == {i \in 1..Len(s) : s[i] \notin Whitespace}
    IN  IF ink = {} THEN << >>
        ELSE Between(s, SetMin(ink) - 1, CHOOSE i \in ink : \A j \in ink : j <= i)

\* the JSON texts of the model's alphabet, free of surrounding whitespace
QuotedFence == <<"\"">> \o Fence \o <<"\"">>

JsonTexts ==
    {ObjText, QuotedFence, MCQThree, <<"[", "1", "]">>, <<"1">>, <<"\"", "s", "\"">>,
     <<"n", "u", "l", "l">>}
    \cup {r \in MCQReplies \cup FlashcardsReplies \cup CurriculumReplies : r[1] = "{"}

IsJson(s) == s \in JsonTexts

\* the extractor has run on the reply of a structured task
Extracted ==
    /\ pc = "done"
    /\ task \in StructuredTasks
    /\ (parsed.ok \/ parsed.error.type = "ValueError")

\* the extractor handed exactly the text sub to the parser: it returned the
\* value of sub when sub is JSON, and raised otherwise
ParsedExactly(sub) ==
    /\ response = sub
    /\ parsed.ok <=> IsJson(sub)
    /\ parsed.ok => parsed.value = sub

\* s occurs in t as a contiguous run
IsSubstring(s, t) == Occurs(t, s)

-----------------------------------------------------------------------------
(* C1 .. C10                                                               *)

\* C1: when the reply contains the marker ```json and a ``` marker after it,
\* the text handed to the parser is the text between the first ```json and the
\* next ```, trimmed, and the result is the parse of exactly that text.
C1_JsonFenceSelected ==
    (Extracted /\ Occurs(reply, JsonFence)) =>
        LET start  == FirstAt(reply, JsonFence) + Len(JsonFence)
            closes == OccurrencesFrom(reply, Fence, start)
        IN  closes # {} =>
                ParsedExactly(Trim(Between(reply, start, SetMin(closes))))

\* a reply with prose before a closed json-tagged block, parsed to a value
C1_Witness ==
    /\ Extracted
    /\ Occurs(reply, JsonFence)
    /\ FirstAt(reply, JsonFence) > 0
    /\ OccurrencesFrom(reply, Fence, FirstAt(reply, JsonFence) + Len(JsonFence)) # {}
    /\ parsed.ok
    /\ Len(response) < Len(reply)

\* the reply is one untagged fenced block that wraps the JSON text j
WrapsUntagged(text, j) ==
    \E b \in Bodies : Trim(b) = j /\ text = Fence \o b \o Fence

\* C2 as stated: when the reply contains ``` but not ```json, the text between
\* the first ``` and the next ``` is parsed, trimmed; and a reply that is one
\* untagged fenced block wrapping any JSON text J yields J.
C2_Original ==
    (Extracted /\ Occurs(reply, Fence) /\ ~Occurs(reply, JsonFence)) =>
        LET start  == FirstAt(reply, Fence) + Len(Fence)
            closes == OccurrencesFrom(reply, Fence, start)
        IN  /\ closes # {} =>
                ParsedExactly(Trim(Between(reply, start, SetMin(closes))))
            /\ \A j \in JsonTexts :
                 WrapsUntagged(reply, j) => (parsed.ok /\ parsed.value = j)

\* C2, amended: when the reply contains ``` but not ```json, the text between
\* the first ``` and the next ``` is parsed, trimmed, with no language tag
\* assumed; a reply that is one untagged fenced block wrapping a JSON text J
\* yields J when J itself holds no ``` marker.
C2_UntaggedFenceSelected ==
    (Extracted /\ Occurs(reply, Fence) /\ ~Occurs(reply, JsonFence)) =>
        LET start  == FirstAt(reply, Fence) + Len(Fence)
            closes == OccurrencesFrom(reply, Fence, start)
        IN  /\ closes # {} =>
                ParsedExactly(Trim(Between(reply, start, SetMin(closes))))
            /\ \A j \in JsonTexts :
                 (WrapsUntagged(reply, j) /\ ~Occurs(j, Fence))
                    => (parsed.ok /\ parsed.value = j)

\* a reply that is one untagged block around padded JSON, parsed to its value
C2_Witness ==
    /\ Extracted
    /\ WrapsUntagged(reply, ObjText)
    /\ Len(reply) > Len(ObjText) + 2 * Len(Fence)
    /\ parsed.ok
    /\ parsed.value = ObjText

\* C3: when the reply contains no ``` marker, the whole text, trimmed, is
\* parsed: extraction succeeds exactly when the trimmed text is JSON, and prose
\* with JSON embedded in it fails.
C3_NoFenceWholeText ==
    (Extracted /\ ~Occurs(reply, Fence)) =>
        /\ response = reply
        /\ parsed.ok <=> IsJson(Trim(reply))
        /\ parsed.ok => parsed.value = Trim(reply)
        /\ (IsSubstring(ObjText, reply) /\ Trim(reply) # ObjText) => ~result.ok

\* a reply without a fence, JSON padded with whitespace, parsed to its value
C3_Witness ==
    /\ Extracted
    /\ ~Occurs(reply, Fence)
    /\ Trim(reply) # reply
    /\ parsed.ok
    /\ result.ok

\* C4: when the reply has an opening fence and no ``` marker after it, the
\* extracted text is everything after the opening marker, to the end of the
\* text, and the missing fence takes no error path of its own.
C4_MissingCloseKeepsTail ==
    (Extracted /\ Occurs(reply, Fence)) =>
        LET opener == IF Occurs(reply, JsonFence) THEN JsonFence ELSE Fence
            start  == FirstAt(reply, opener) + Len(opener)
        IN  OccurrencesFrom(reply, Fence, start) = {} =>
                ParsedExactly(Trim(Rest(reply, start)))

\* the number of ``` markers of s from index from on, scanned left to right
\* without overlap
RECURSIVE CountMarkers(_, _)
CountMarkers(s, from) ==
    LET later == OccurrencesFrom(s, Fence, from)
    IN  IF later = {} THEN 0
        ELSE 1 + CountMarkers(s, SetMin(later) + Len(Fence))

\* the text holds two fenced blocks or more
TwoBlocks(s) == CountMarkers(s, 0) >= 4

\* C5 as stated: when the reply holds two or more fenced blocks, tagged json or
\* not and in any order, the content of the block that comes first is parsed.
C5_Original ==
    (Extracted /\ TwoBlocks(reply)) =>
        LET first  == FirstAt(reply, Fence)
            opener == IF first \in Occurrences(reply, JsonFence)
                      THEN JsonFence ELSE Fence
            start  == first + Len(opener)
            closes == OccurrencesFrom(reply, Fence, start)
        IN  ParsedExactly(Trim(Between(reply, start, SetMin(closes))))

\* C5, amended: when the reply holds two or more fenced blocks, one block is
\* parsed and the others are ignored: the block opened by the first ```json
\* marker when the reply holds one, even after an untagged block, and otherwise
\* the first block (given that a ``` marker follows the opening marker).
C5_FirstJsonBlockElseFirst ==
    (Extracted /\ TwoBlocks(reply)) =>
        LET opener == IF Occurs(reply, JsonFence) THEN JsonFence ELSE Fence
            start  == FirstAt(reply, opener) + Len(opener)
            closes == OccurrencesFrom(reply, Fence, start)
        IN  closes # {} =>
                ParsedExactly(Trim(Between(reply, start, SetMin(closes))))

\* an untagged block, then a json-tagged block whose content is the result
C5_Witness ==
    /\ Extracted
    /\ TwoBlocks(reply)
    /\ Occurs(reply, JsonFence)
    /\ FirstAt(reply, Fence) < FirstAt(reply, JsonFence)
    /\ parsed.ok
    /\ response = ObjText

\* the messages of the JSON decoder
DecoderMessages ==
    {"Expecting value", "Extra data", "Expecting ',' delimiter",
     "Expecting ':' delimiter",
     "Expecting property name enclosed in double quotes",
     "Unterminated string starting at", "Invalid control character at"}

RECURSIVE DecimalValue(_)
DecimalValue(d) ==
    IF d = << >> THEN 0
    ELSE 10 * DecimalValue(SubSeq(d, 1, Len(d) - 1))
         + (CHOOSE v \in 0..9 : DigitChars[v + 1] = d[Len(d)])

\* the decimal numeral of n < 100
Decimal(n) ==
    CHOOSE d \in [1..1 -> Digits] \cup [1..2 -> Digits] :
        DecimalValue(d) = n /\ (Len(d) = 1 \/ d[1] # "0")

\* x is a decimal numeral
IsNumeral(x) ==
    /\ x # << >>
    /\ \A k \in 1..Len(x) : x[k] \in Digits
    /\ (Len(x) = 1 \/ x[1] # "0")

\* d is a decoder diagnostic: "<msg>: line <l> column <c> (char <p>)"
IsDiagnostic(d) ==
    /\ Len(d) >= 8
    /\ d[1] \in DecoderMessages
    /\ d[2] = ": line "
    /\ d[Len(d)] = ")"
    /\ \E a, b \in 4..(Len(d) - 2) :
         /\ a < b
         /\ d[a] = " column "
         /\ d[b] = " (char "
         /\ IsNumeral(SubSeq(d, 3, a - 1))
         /\ IsNumeral(SubSeq(d, a + 1, b - 1))
         /\ IsNumeral(SubSeq(d, b + 1, Len(d) - 1))

TrailingComma == <<"[", "1", ",", "]">>

\* C6: when the text the extractor selected is not JSON (a trailing comma, a
\* truncated object), the extractor raises an error that carries the parser's
\* diagnostic and returns no value, partial or repaired; the service fails too.
C6_MalformedNeverYieldsValue ==
    (Extracted /\ ~IsJson(Trim(response))) =>
        /\ ~parsed.ok
        /\ parsed.value = << >>
        /\ parsed.error.type = "ValueError"
        /\ IsDiagnostic(Tail(parsed.error.message))
        /\ Trim(response) = TrailingComma =>
             IsSubstring(<<"Expecting value", ": line ", "1", " column ", "4",
                           " (char ", "3", ")">>, parsed.error.message)
        /\ ~result.ok
        /\ result.value = << >>

\* the selected text is an array with a trailing comma, and the call failed
C6_Witness ==
    /\ Extracted
    /\ Trim(response) = TrailingComma
    /\ ~parsed.ok
    /\ ~result.ok

\* C7 as stated: on a parse failure the error the extractor raises carries the
\* parser's diagnostic and the text that failed to parse.
C7_Original ==
    (Extracted /\ ~parsed.ok) =>
        /\ \E i \in 1..Len(parsed.error.message) :
             IsDiagnostic(SubSeq(parsed.error.message, i, Len(parsed.error.message)))
        /\ IsSubstring(response, parsed.error.message)

\* C7, amended: on a parse failure the error the extractor raises is the fixed
\* prefix followed by the parser's diagnostic and nothing else; the text that
\* failed to parse is written to the log, after the same diagnostic.
C7_ErrorCarriesDiagnosticOnly ==
    (Extracted /\ ~parsed.ok) =>
        /\ Head(parsed.error.message) = "Invalid JSON response from AI: "
        /\ IsDiagnostic(Tail(parsed.error.message))
        /\ \E i \in 1..Len(log) :
             log[i] = <<"Failed to parse JSON: ">> \o Tail(parsed.error.message)
                      \o <<"\nResponse: ">> \o response

\* a fenced reply whose selected text failed to parse
C7_Witness ==
    /\ Extracted
    /\ ~parsed.ok
    /\ response # << >>
    /\ Occurs(reply, Fence)
    /\ Len(log) = 2

\* C8 as stated: for every JSON text J, leading text P and trailing text S,
\* extracting from P + ```json + J + ``` + S yields J.
C8_Original ==
    Extracted =>
        \A i \in Occurrences(reply, JsonFence) :
            \A j \in OccurrencesFrom(reply, Fence, i + Len(JsonFence)) :
                LET J == Trim(Between(reply, i + Len(JsonFence), j))
                IN  IsJson(J) => (parsed.ok /\ parsed.value = J)

\* C8, amended: for every JSON text J that holds no ``` marker, every leading
\* text P that holds no ```json marker and every trailing text S, extracting
\* from P + ```json + J + ``` + S yields J.
C8_RoundTrip ==
    Extracted =>
        \A i \in Occurrences(reply, JsonFence) :
            \A j \in OccurrencesFrom(reply, Fence, i + Len(JsonFence)) :
                LET P == Between(reply, 0, i)
                    J == Trim(Between(reply, i + Len(JsonFence), j))
                IN  (IsJson(J) /\ ~Occurs(J, Fence) /\ ~Occurs(P, JsonFence))
                        => (parsed.ok /\ parsed.value = J /\ result = parsed)

\* prose, a json-tagged block around JSON, prose again: the JSON is the result
C8_Witness ==
    /\ Extracted
    /\ \E i \in Occurrences(reply, JsonFence) :
         \E j \in OccurrencesFrom(reply, Fence, i + Len(JsonFence)) :
            /\ i > 0
            /\ ~Occurs(Between(reply, 0, i), Fence)
            /\ j + Len(Fence) < Len(reply)
            /\ Trim(Between(reply, i + Len(JsonFence), j)) = ObjText
    /\ result.ok
    /\ result.value = ObjText

Sep == <<".", " ">>

RECURSIVE Join(_, _)
Join(segs, sep) ==
    IF Len(segs) = 0 THEN << >>
    ELSE IF Len(segs) = 1 THEN segs[1]
    ELSE segs[1] \o sep \o Join(Tail(segs), sep)

ChatSucceeded == pc = "done" /\ task = "chat" /\ result.ok

FieldTexts(t, a) ==
    CASE t = "chat" ->
           {a.notes, a.question, a.context} \ {None}
      [] t = "curriculum" ->
           {a.document, a.subject, a.difficulty_level, Decimal(a.duration_weeks.int)}
           \ {None}
      [] t = "mcq" ->
           {a.content, Decimal(a.num_questions), a.difficulty_level,
            IF a.include_explanations THEN <<"T", "r", "u", "e">>
            ELSE <<"F", "a", "l", "s", "e">>}
      [] t = "flashcards" ->
           {a.content, Decimal(a.num_flashcards), a.focus_areas} \ {None}
      [] OTHER -> {}

\* C10: the rendered prompt of each of the four tasks holds the text of every
\* field the caller supplied, whole.
C10_PromptHoldsEveryField ==
    pc # "idle" => \A f \in FieldTexts(task, args) : IsSubstring(f, prompt)

\* a chat prompt rendered from notes, a question and a context
C10_Witness ==
    /\ pc = "awaiting"
    /\ task = "chat"
    /\ args.context # None
    /\ Len(args.notes) > 1
    /\ prompt # << >>

-----------------------------------------------------------------------------
(* The HTTP layer                                                          *)

\* a step that takes up a request to one of the four task routes
RequestTaken == pc \in {"idle", "responded"} /\ pc' # pc /\ task' # "none"

\* the step leaves the server log and the settings as they were
NothingWritten == log' = log /\ debug_mode' = debug_mode

CountedBody(key, n) ==
    JObj(<<Member(Key.content, JStr(Content50)), Member(key, Decimal(n))>>)

\* the request in hand asks the route of task t for n items under key
Asks(t, key, n) == pc # "idle" /\ task = t /\ request = CountedBody(key, n)

\* the request in hand was rejected at validation: it is answered 422, and
\* no prompt was rendered for it
Rejected == pc = "responded" /\ status = 422 /\ prompt = << >>

\* C12: an mcq request is accepted iff its num_questions is in 1..20 and a
\* flashcards request iff its num_flashcards is in 1..50; a rejected request
\* is answered with a validation error, and is at no time answered 200.
C12_IntegerBounds ==
    \A n \in 0..60 :
       /\ Asks("mcq", Key.num_questions, n) =>
             IF n \in 1..20 THEN status # 422 ELSE Rejected
       /\ Asks("flashcards", Key.num_flashcards, n) =>
             IF n \in 1..50 THEN status # 422 ELSE Rejected

\* an mcq request for 20 questions has been answered 200
C12_Witness == Asks("mcq", Key.num_questions, 20) /\ status = 200

\* an mcq request for 21 questions has been answered 422
C12_WitnessRejected == Asks("mcq", Key.num_questions, 21) /\ Rejected

\* a curriculum request passed validation and its fields were handed to
\* generate_curriculum
CurriculumAccepted == task = "curriculum" /\ pc # "idle" /\ status # 422

\* C13: every curriculum request that passes validation reaches
\* generate_curriculum with duration_weeks an integer in 1..52 and a textual
\* difficulty_level; no accepted request, an explicit null included, hands
\* None to the Prompt Builder.
C13_CurriculumFieldsPresent ==
    CurriculumAccepted =>
        /\ args.duration_weeks.type = "int"
        /\ args.duration_weeks.int \in 1..52
        /\ args.difficulty_level # None

\* what has happened for the request in hand
Rendered == prompt # << >>

ModelReplied == reply # << >>

ExtractionRan == parsed # NoOutcome

ServiceEnded == result # NoOutcome

Serialized == task # "none" /\ status \in {200, 500}

\* C14: for every request the steps occur in the order validate, render the
\* prompt, call the model, extract, serialize: a request that fails
\* validation is answered without a rendered prompt or a model call, a model
\* call has a rendered prompt, the extraction has the reply of the model, and
\* a response is sent only when the service has ended.
C14_StepsInOrder ==
    /\ status = 422 =>
          pc = "responded" /\ ~Rendered /\ ~ModelReplied /\ ~ExtractionRan
          /\ ~ServiceEnded
    /\ pc = "awaiting" => Rendered /\ ~ModelReplied /\ ~ExtractionRan /\ ~Serialized
    /\ ModelReplied => Rendered
    /\ ExtractionRan => ModelReplied
    /\ ServiceEnded => Rendered
    /\ Serialized => ServiceEnded /\ pc = "responded"
    /\ (status = 200 /\ task \in StructuredTasks) => ExtractionRan /\ parsed.ok

\* an mcq request went through every step and is answered 200
C14_Witness ==
    /\ status = 200
    /\ task = "mcq"
    /\ Rendered /\ ModelReplied /\ ExtractionRan /\ ServiceEnded

\* the mcq request in hand, with num_questions = n, is answered 200
MCQAnswered(n) ==
    /\ task = "mcq"
    /\ pc = "responded"
    /\ status = 200
    /\ args.num_questions = n

\* C15: every 200 response to POST mcq with num_questions = n holds exactly
\* n entries in questions, whatever JSON the model replied with.
C15_MCQCount ==
    \A n \in 1..20 : MCQAnswered(n) => Len(body.questions) = n

\* the labels of the options of a question of the response
Labels(q) == [i \in DOMAIN q.options |-> q.options[i].option]

\* a question with exactly four options, labelled A, B, C and D in this
\* order, whose correct_answer is one of the labels
WellFormed(q) ==
    /\ Labels(q) = << <<"A">>, <<"B">>, <<"C">>, <<"D">> >>
    /\ \E i \in DOMAIN q.options : q.correct_answer = q.options[i].option

\* C16: in every 200 response to POST mcq each question has exactly 4
\* options labelled A, B, C and D, and its correct_answer equals the label
\* of exactly one of its options.
C16_MCQWellFormed ==
    (task = "mcq" /\ pc = "responded" /\ status = 200) =>
        \A k \in DOMAIN body.questions : WellFormed(body.questions[k])

\* the request in hand is answered 200 by the route of task t
Answered(t) == task = t /\ pc = "responded" /\ status = 200

\* C17: in every 200 response the declared count equals the length of its
\* list: total_questions = len(questions), total_cards = len(flashcards) and
\* total_weeks = len(weeks).
C17_CountInvariant ==
    /\ Answered("mcq") => body.total_questions = Len(body.questions)
    /\ Answered("flashcards") => body.total_cards = Len(body.flashcards)
    /\ Answered("curriculum") => body.total_weeks = Len(body.weeks)

\* the request in hand is answered with an error
ErrorAnswered == pc = "responded" /\ status # 200

\* C18: every error response of the four task routes, whether validation,
\* the model call, the extraction or a missing field of the model's JSON
\* failed, has a body of exactly the shape {error, detail, status_code}, and
\* every failure after validation has status 500.
C18_UniformErrorEnvelope ==
    ErrorAnswered =>
        /\ DOMAIN body = {"error", "detail", "status_code"}
        /\ Rendered => status = 500

\* the half of C18 the routes keep: a request that passed validation and
\* failed is answered 500
C18_FailureIs500 == (ErrorAnswered /\ Rendered) => status = 500

\* the detail of global_exception_handler outside debug mode
GenericDetail == <<"An unexpected error occurred">>

\* C19: when debug_mode is false no 500 response of any route holds the
\* text of the underlying exception: its detail is the fixed generic string,
\* whether the model call, the extraction or a missing key failed.
C19_DetailSuppressed ==
    (pc = "responded" /\ status = 500 /\ ~debug_mode) =>
        body.detail = GenericDetail

\* the diagnostic of the parser, when the extraction failed
ParserDiagnostic == Tail(parsed.error.message)

\* C20: when the model replied and the reply did not parse, the request
\* ends with status 500 and the parser's diagnostic is in the server log
\* only: the body of the response does not hold it.
C20_DiagnosticServerSideOnly ==
    (pc = "responded" /\ ExtractionRan /\ ~parsed.ok) =>
        /\ status = 500
        /\ \E i \in DOMAIN log : IsSubstring(ParserDiagnostic, log[i])
        /\ ~IsSubstring(ParserDiagnostic, body.detail)

\* C21: every request makes at most one call to the model: a call is
\* outstanding only from the step that takes the request up, and once the
\* call has returned or raised the next step of the request is its response;
\* a failure of the model call or of the extraction is answered 500, without
\* a second call or a repair of the reply.
C21_NoRetry ==
    [][/\ pc' = "awaiting" => RequestTaken
       /\ pc = "done" =>
             /\ pc' = "responded"
             /\ reply' = reply /\ parsed' = parsed /\ result' = result
             /\ ~result.ok => status' = 500
      ]_vars

\* a failed model call has been answered 500
C21_Witness ==
    /\ pc = "responded"
    /\ status = 500
    /\ ~ModelReplied
    /\ ServiceEnded /\ ~result.ok

\* the fields of the typed response of a task
ResponseFields(t) ==
    CASE t = "chat" -> {"answer", "confidence", "sources", "timestamp"}
      [] t = "curriculum" ->
           {"subject", "difficulty_level", "total_weeks", "overview", "weeks",
            "prerequisites", "timestamp"}
      [] t = "mcq" ->
           {"total_questions", "difficulty_level", "questions", "timestamp"}
      [] t = "flashcards" ->
           {"total_cards", "focus_areas", "flashcards", "timestamp"}

\* a step of the request in hand failed: the model call or the service
\* method raised, or the extraction found no JSON
StepFailed == (ServiceEnded /\ ~result.ok) \/ (ExtractionRan /\ ~parsed.ok)

\* C22: a failure of the model call or of the parsing makes the whole
\* request fail: a response is a 200 that carries the complete typed result
\* of a request none of whose steps failed, or it is an error; no 200
\* carries default, fallback or partly filled content.
C22_NoPartialSuccess ==
    (pc = "responded" /\ task # "none") =>
        /\ StepFailed => status = 500
        /\ status = 200 =>
              /\ ~StepFailed
              /\ ModelReplied
              /\ DOMAIN body = ResponseFields(task)

\* a flashcards request whose reply did not parse has been answered 500
C22_Witness ==
    /\ pc = "responded"
    /\ task = "flashcards"
    /\ ExtractionRan /\ ~parsed.ok
    /\ status = 500

\* C26: every successful chat result carries the same fixed confidence, 0.85
\* (85 hundredths), which lies in the range 0 to 1 whatever the notes, the
\* question, the context and the reply are; the 200 response carries it on.
C26_ChatConfidence ==
    /\ (task = "chat" /\ ServiceEnded /\ result.ok) =>
          /\ result.value.confidence = 85
          /\ result.value.confidence \in 0..100
    /\ Answered("chat") => body.confidence = 85

\* a chat request with a context has been answered 200
C26_Witness ==
    /\ Answered("chat")
    /\ args.context # None
    /\ body.confidence = 85

\* an optional text that was given and is not empty
NonEmpty(v) == v # None /\ v # << >>

\* the fixed fragment f is in the prompt p
Has(p, f) == \E i \in DOMAIN p : p[i] = f

\* the fixed fragments of a prompt: what it holds beside the characters of
\* the substituted values
Fragments(p) == {p[i] : i \in {j \in DOMAIN p : Len(p[j]) > 1}}

GeneralStudies ==
    <<"G", "e", "n", "e", "r", "a", "l", " ", "S", "t", "u", "d", "i", "e", "s">>

\* the optional input of the request in hand is given and not empty
OptionalGiven ==
    CASE task = "chat"       -> NonEmpty(args.context)
      [] task = "flashcards" -> NonEmpty(args.focus_areas)
      [] task = "curriculum" -> NonEmpty(args.subject)
      [] OTHER               -> FALSE

\* the fragment of the prompt in hand that its optional input selects
FragmentSelected ==
    CASE task = "chat" ->
           Has(prompt, "Previous Context:\n") <=> NonEmpty(args.context)
      [] task = "flashcards" ->
           IF NonEmpty(args.focus_areas)
           THEN /\ IsSubstring(<<"Focus Areas: ">> \o args.focus_areas, prompt)
                /\ ~Has(prompt, "Focus Areas: Cover all key concepts")
           ELSE /\ Has(prompt, "Focus Areas: Cover all key concepts")
                /\ ~IsSubstring(<<"Focus Areas: ", "N", "o", "n", "e">>, prompt)
                /\ IsSubstring(<<"  \"focus_areas\": \"", "g", "e", "n", "e", "r",
                                 "a", "l", "\",\n">>, prompt)
      [] task = "curriculum" ->
           IsSubstring(<<"Subject: ">> \o GeneralStudies, prompt)
               <=> ~NonEmpty(args.subject)
      [] OTHER -> TRUE

\* C28: the chat prompt holds a "Previous Context:" section iff context is
\* non-empty; the flashcards prompt holds "Focus Areas: <focus_areas>" iff
\* focus_areas is non-empty and otherwise "Focus Areas: Cover all key
\* concepts" with "general" in the schema example; the curriculum prompt
\* names "General Studies" as subject iff subject is absent or empty; and a
\* request of the same task with the same optional input given or not gets
\* the same fixed fragments as the request before it.
C28_FragmentSelection ==
    [][(RequestTaken /\ status' # 422) =>
          /\ FragmentSelected'
          /\ (Rendered /\ task' = task /\ OptionalGiven' = OptionalGiven) =>
                Fragments(prompt') = Fragments(prompt)
      ]_vars

\* a flashcards prompt rendered for an empty focus_areas
C28_Witness ==
    /\ pc = "awaiting"
    /\ task = "flashcards"
    /\ args.focus_areas = << >>
    /\ Has(prompt, "Focus Areas: Cover all key concepts")

\* the keys a route reads with result[key]
RequiredKeys(t) ==
    CASE t = "mcq" -> {Key.total_questions, Key.difficulty_level, Key.questions}
      [] t = "flashcards" -> {Key.total_cards, Key.flashcards}
      [] t = "curriculum" ->
           {Key.subject, Key.difficulty_level, Key.total_weeks, Key.overview, Key.weeks}

\* the number of brackets open before the 0-based index i of a JSON text
\* whose strings hold no bracket
BracketDepth(v, i) ==
    Cardinality({j \in 1..i : v[j] \in {"{", "["}})
    - Cardinality({j \in 1..i : v[j] \in {"}", "]"}})

\* the JSON text v is an object with a member named key
ObjectWith(v, key) ==
    /\ v[1] = "{"
    /\ \E i \in Occurrences(v, JStr(key) \o <<":">>) : BracketDepth(v, i) = 1

\* the JSON the extractor returned is an object with every required key
Complete == \A k \in RequiredKeys(task) : ObjectWith(parsed.value, k)

\* a structured request whose reply was parsed as JSON has been answered
ParsedAnswered ==
    /\ pc = "responded"
    /\ task \in StructuredTasks
    /\ ExtractionRan
    /\ parsed.ok

\* C29: curriculum, mcq and flashcards answer 200 only if the extracted JSON
\* is an object that holds every key the route requires; JSON that is no
\* object, or an object without a required key, is answered 500; a 200 whose
\* JSON lacks the optional key (prerequisites, focus_areas) has null there.
C29_RequiredKeys ==
    ParsedAnswered =>
        /\ status = 200 => Complete
        /\ ~Complete => status = 500
        /\ (status = 200 /\ task = "curriculum"
              /\ ~ObjectWith(parsed.value, Key.prerequisites)) =>
                 body.prerequisites = None
        /\ (status = 200 /\ task = "flashcards"
              /\ ~ObjectWith(parsed.value, Key.focus_areas)) =>
                 body.focus_areas = None

\* a flashcards reply without focus_areas was answered 200
C29_Witness ==
    /\ ParsedAnswered
    /\ task = "flashcards"
    /\ status = 200
    /\ ~ObjectWith(parsed.value, Key.focus_areas)

\* a reply that is a JSON array was answered 500
C29_WitnessNonObject ==
    /\ ParsedAnswered
    /\ parsed.value = <<"[", "1", "]">>
    /\ status = 500

\* a curriculum reply without the required key weeks was answered 500
C29_WitnessMissingKey ==
    /\ ParsedAnswered
    /\ task = "curriculum"
    /\ ObjectWith(parsed.value, Key.overview)
    /\ ~ObjectWith(parsed.value, Key.weeks)
    /\ status = 500

\* the request in hand was a GET of the health probe of a task route, and
\* it has been answered
HealthProbed ==
    /\ pc = "responded"
    /\ path \in {<<"GET", <<"/api", "/v1", t, "/health">> >> :
                   t \in {"/chat", "/curriculum", "/mcq", "/flashcards"}}

\* C23: the GET health probe of each of the four task routes returns 200
\* with the fixed status value "operational"; it makes no call to the model,
\* and no failure or log entry of an earlier request changes its answer.
C23_HealthProbes ==
    HealthProbed =>
        /\ status = 200
        /\ body.status = "operational"
        /\ ~Rendered /\ ~ModelReplied /\ ~ServiceEnded

\* the part of C23 the probes keep: 200 and a fixed body, without a call to
\* the model, whatever the log of the earlier requests holds
C23_ProbeIsFixed ==
    HealthProbed =>
        /\ status = 200
        /\ body.status = "healthy"
        /\ DOMAIN body = {"status", "service", "timestamp"}
        /\ ~Rendered /\ ~ModelReplied /\ ~ServiceEnded

\* a probe was answered after a request whose model call failed
C23_WitnessAfterFailure == HealthProbed /\ log # << >>

\* the request in hand is one that test_example.py sends, and it has been
\* answered
TestGet == pc = "responded" /\ path = <<"GET", <<"/api", "/v1", "/education", "/health">> >>

TestPost ==
    /\ pc = "responded"
    /\ path \in {<<"POST", <<"/api", "/v1", "/education", t>> >> :
                   t \in {"/chat", "/curriculum", "/mcq", "/flashcards"}}

\* C27: every path test_example.py calls is a mounted route: GET
\* /api/v1/education/health is answered 200, and POST /api/v1/education/chat,
\* /curriculum, /mcq and /flashcards reach the handler of their task.
C27_TestRoutesServed ==
    /\ TestGet => status = 200
    /\ TestPost => (status # 404 /\ task # "none")

\* what the application does with the requests of test_example.py: each of
\* them is answered 404, and no handler runs
C27_TestRoutesNotFound ==
    (TestGet \/ TestPost) => (status = 404 /\ task = "none" /\ ~Rendered)

\* a POST of test_example.py has been answered
C27_WitnessPost == TestPost

\* the client every service builds at import from the settings: model
\* "gemini-pro", temperature 0.7 (in tenths), no cap on the output
ClientAtStart ==
    [max_output_tokens |-> <<"<None>">>, model |-> "gemini-pro", temperature |-> 7]

ClientsAtStart ==
    [chat |-> ClientAtStart, curriculum |-> ClientAtStart,
     flashcards |-> ClientAtStart, mcq |-> ClientAtStart]

\* C25: the model client of each task and the settings are built once, when
\* the process starts, and no step of any request, answered 200 or failed,
\* builds them again or changes them.
C25_SingletonFrame ==
    /\ llm = ClientsAtStart
    /\ [][llm' = llm /\ debug_mode' = debug_mode]_vars

\* a request whose model call failed has been answered, and the client of
\* its task is the one built at the start
C25_Witness ==
    /\ pc = "responded"
    /\ status = 500
    /\ ~ModelReplied
    /\ llm[task] = ClientAtStart

\* C30: if the call to the model returns or raises, every request that
\* passed validation ends with exactly one response, 200 or 500, whichever
\* step fails: nothing is sent while the request waits for the model, and
\* when the service method has ended the next step sends the response.
C30_OneResponse ==
    /\ (pc = "awaiting") ~> (pc = "responded" /\ status \in {200, 500})
    /\ [][/\ pc = "awaiting" => (status = 0 /\ status' = 0 /\ pc' = "done")
          /\ pc = "done" => (status = 0 /\ status' \in {200, 500} /\ pc' = "responded")
         ]_vars

\* a curriculum request whose model call raised has been answered 500
C30_Witness ==
    /\ pc = "responded"
    /\ task = "curriculum"
    /\ Rendered
    /\ ~ModelReplied
    /\ status = 500

\* the request in hand has been answered, and the request answered before
\* it had the same method, path and body and got the same reply of the
\* model (the same text, or no text when the call raised)
SameAsBefore ==
    /\ pc = "responded"
    /\ answered # << >>
    /\ answered.path = path
    /\ answered.request = request
    /\ answered.reply = reply

====
